---------------------------- MODULE Spec2Model ----------------------------
(***************************************************************************)
(* The admin console's list-bearing views (Admins, Users, Assistants,      *)
(* Payments): every view fetches a collection, normalises the response     *)
(* envelope, derives a filtered list and dispatches delete / verify        *)
(* requests.  One view is mounted per behaviour (variable view).           *)
(*                                                                         *)
(* A record is a function from the properties it has to their values: a    *)
(* property that is undefined is missing from the record's DOMAIN.         *)
(***************************************************************************)
EXTENDS Integers, Sequences, FiniteSets, Bags, TLC

(***************************************************************************)
(* Bounds of the model.                                                    *)
(***************************************************************************)
NumIds == 2          \* users, assistants and payments are numbered 1..NumIds
NumAdmins == 3       \* admins are numbered 1..NumAdmins
MaxInFlight == 2     \* requests of one sort that may be in flight at once
MaxLogouts == 1      \* logouts that may be in flight at once
MaxAbandoned == 0    \* calls that may be in flight when a tab is selected
NumPayments == 1     \* payments the backend of the payments view holds
NumLong == 11        \* records of a response that fills more than one page
NumProbes == 3       \* records the pipelines are probed with are 1..NumProbes
MaxProbeLen == 2     \* length of the collections the pipelines are probed with

(***************************************************************************)
(* JavaScript strings and optional properties.                             *)
(***************************************************************************)
UpperCaseLetters == "ABCDEFGHIJKLMNOPQRSTUVWXYZ"
LowerCaseLetters == "abcdefghijklmnopqrstuvwxyz"
Digits == "0123456789"

CharAt(s, i) == SubSeq(s, i, i)

\* the lower-case letter of every upper-case letter
LowerCaseOf ==
    [c \in {CharAt(UpperCaseLetters, i) : i \in 1..Len(UpperCaseLetters)} |->
        CharAt(LowerCaseLetters,
               CHOOSE i \in 1..Len(UpperCaseLetters) : CharAt(UpperCaseLetters, i) = c)]

LowerChar(c) == IF c \in DOMAIN LowerCaseOf THEN LowerCaseOf[c] ELSE c

\* s.toLowerCase()
RECURSIVE toLowerCase(_)
toLowerCase(s) ==
    IF s = "" THEN ""
    ELSE LowerChar(CharAt(s, 1)) \o toLowerCase(SubSeq(s, 2, Len(s)))

\* s.includes(t)
includes(s, t) ==
    \E i \in 0..(Len(s) - Len(t)) : SubSeq(s, i + 1, i + Len(t)) = t

\* s.trim(), for strings whose only white space is the blank
RECURSIVE trim(_)
trim(s) ==
    IF s = "" THEN ""
    ELSE IF CharAt(s, 1) = " " THEN trim(SubSeq(s, 2, Len(s)))
    ELSE IF CharAt(s, Len(s)) = " " THEN trim(SubSeq(s, 1, Len(s) - 1))
    ELSE s

\* obj.f is truthy: present and not ""
Has(obj, f) == f \in DOMAIN obj /\ obj[f] # ""
\* obj.f || fallback
OrElse(obj, f, fallback) == IF Has(obj, f) THEN obj[f] ELSE fallback
\* `${obj.f}` in a template literal
Interpolate(obj, f) == IF f \in DOMAIN obj THEN obj[f] ELSE "undefined"
\* obj.f is a truthy number: present and not 0
HasNumber(obj, f) == f \in DOMAIN obj /\ obj[f] # 0
\* obj.f || fallback, for a numeric property
NumberOrElse(obj, f, fallback) == IF HasNumber(obj, f) THEN obj[f] ELSE fallback
\* obj.f?.length || 0, a list property being modelled by its length
LengthOrZero(obj, f) == NumberOrElse(obj, f, 0)

\* numbers.reduce((sum, n) => sum + n, 0)
RECURSIVE Sum(_)
Sum(numbers) == IF numbers = << >> THEN 0 ELSE Head(numbers) + Sum(Tail(numbers))

(***************************************************************************)
(* Time.  An instant is a number of seconds; an ISO timestamp is modelled   *)
(* by the instant it denotes.  Local midnight is the start of the day.     *)
(***************************************************************************)
SecondsPerDay == 86400

\* new Date(now.getFullYear(), now.getMonth(), now.getDate())
Midnight(t) == t - (t % SecondsPerDay)
\* d.setDate(d.getDate() - n)
DaysBefore(t, n) == t - n * SecondsPerDay

\* a variant that counts the seven days back from now
InDateBucket_FromNow(date, dateFilter, clock) ==
    LET today == Midnight(clock)
        yesterday == DaysBefore(today, 1)
        last7Days == DaysBefore(clock, 7)
        last30Days == DaysBefore(today, 30)
    IN  CASE dateFilter = "today" -> date >= today
          [] dateFilter = "yesterday" -> date >= yesterday /\ date < today
          [] dateFilter = "last7" -> date >= last7Days
          [] dateFilter = "last30" -> date >= last30Days
          [] OTHER -> TRUE

\* the switch of the date filter, shared by the three filter effects
InDateBucket(date, dateFilter, clock) ==
    LET today == Midnight(clock)
        yesterday == DaysBefore(today, 1)
        last7Days == DaysBefore(today, 7)
        last30Days == DaysBefore(today, 30)
    IN  CASE dateFilter = "today" -> date >= today
          [] dateFilter = "yesterday" -> date >= yesterday /\ date < today
          [] dateFilter = "last7" -> date >= last7Days
          [] dateFilter = "last30" -> date >= last30Days
          [] OTHER -> TRUE

\* x.createdAt || new Date().toISOString()
getSafeCreatedAt(x, clock) ==
    IF "createdAt" \in DOMAIN x THEN x.createdAt ELSE clock

(***************************************************************************)
(* Admins view: the list derived at each render.                           *)
(***************************************************************************)
filteredAdmins(admins, searchTerm) ==
    LET term == toLowerCase(searchTerm)
    IN  SelectSeq(admins, LAMBDA admin :
            \/ includes(toLowerCase(Interpolate(admin, "firstname") \o " "
                                    \o Interpolate(admin, "lastname")), term)
            \/ includes(toLowerCase(admin.email), term)
            \/ includes(toLowerCase(OrElse(admin, "phonenumber", "")), term)
            \/ includes(toLowerCase(OrElse(admin, "role", "")), term))

(***************************************************************************)
(* Users view: accessors and the filter effect's pipeline.                 *)
(***************************************************************************)
getSafeUserName(user) ==
    OrElse(user, "firstname", "Unknown") \o " " \o OrElse(user, "lastname", "User")
getSafeEmail(user) == OrElse(user, "email", "N/A")
getSafePhone(user) == OrElse(user, "phonenumber", "N/A")
getSafePlanName(user) == OrElse(user, "planName", "No Plan")
getSafeIndustries(user) == OrElse(user, "preferredIndustries", "Not specified")
getSafeRoles(user) == OrElse(user, "preferredRoles", "Not specified")
getSafeLocations(user) == OrElse(user, "preferredLocations", "Not specified")

UserMatchesSearch(user, searchTerm) ==
    LET searchLower == toLowerCase(searchTerm)
    IN  \/ includes(toLowerCase(getSafeUserName(user)), searchLower)
        \/ includes(toLowerCase(getSafeEmail(user)), searchLower)
        \/ includes(toLowerCase(getSafePhone(user)), searchLower)
        \/ includes(toLowerCase(getSafeIndustries(user)), searchLower)
        \/ includes(toLowerCase(getSafeRoles(user)), searchLower)
        \/ includes(toLowerCase(getSafeLocations(user)), searchLower)

UserMatchesPlan(user, planFilter) ==
    IF planFilter = "active"
    THEN Has(user, "planName") /\ "planExpiresAt" \in DOMAIN user
    ELSE IF planFilter = "none" THEN ~Has(user, "planName")
    ELSE includes(toLowerCase(getSafePlanName(user)), toLowerCase(planFilter))

UsersFilterEffect(users, searchTerm, planFilter, dateFilter, clock) ==
    LET bySearch == IF searchTerm # ""
                    THEN SelectSeq(users, LAMBDA u : UserMatchesSearch(u, searchTerm))
                    ELSE users
        byPlan == IF planFilter # "all"
                  THEN SelectSeq(bySearch, LAMBDA u : UserMatchesPlan(u, planFilter))
                  ELSE bySearch
    IN  IF dateFilter # "all"
        THEN SelectSeq(byPlan, LAMBDA u :
                 InDateBucket(getSafeCreatedAt(u, clock), dateFilter, clock))
        ELSE byPlan

(***************************************************************************)
(* Assistants view.                                                        *)
(***************************************************************************)
getSafeAssistantName(assistant) ==
    OrElse(assistant, "firstname", "Unknown") \o " "
        \o OrElse(assistant, "lastname", "Assistant")
getSafeAssistantStatus(assistant) == OrElse(assistant, "status", "offline")

AssistantMatchesSearch(assistant, searchTerm) ==
    LET searchLower == toLowerCase(searchTerm)
    IN  \/ includes(toLowerCase(getSafeAssistantName(assistant)), searchLower)
        \/ includes(toLowerCase(getSafeEmail(assistant)), searchLower)

AssistantsFilterEffect(assistants, searchTerm, statusFilter, dateFilter, clock) ==
    LET bySearch == IF searchTerm # ""
                    THEN SelectSeq(assistants,
                                   LAMBDA a : AssistantMatchesSearch(a, searchTerm))
                    ELSE assistants
        byStatus == IF statusFilter # "all"
                    THEN SelectSeq(bySearch, LAMBDA a :
                             toLowerCase(getSafeAssistantStatus(a))
                                 = toLowerCase(statusFilter))
                    ELSE bySearch
    IN  IF dateFilter # "all"
        THEN SelectSeq(byStatus, LAMBDA a :
                 InDateBucket(getSafeCreatedAt(a, clock), dateFilter, clock))
        ELSE byStatus

(***************************************************************************)
(* Payments view.                                                          *)
(***************************************************************************)
getSafePaymentUserName(payment) ==
    OrElse(payment, "userFirstName", "Unknown") \o " "
        \o OrElse(payment, "userLastName", "User")
getSafePaymentEmail(payment) == OrElse(payment, "userEmail", "N/A")
getSafePaymentPhone(payment) == OrElse(payment, "userPhone", "N/A")
getSafePaymentPlanName(payment) == OrElse(payment, "planName", "Unknown Plan")
getSafeStatus(payment) == OrElse(payment, "status", "pending")
getTransactionId(payment) ==
    IF Has(payment, "stripeSessionId") THEN payment.stripeSessionId
    ELSE OrElse(payment, "stripePaymentIntentId", payment._id)

\* PaymentDetailModal and the list rows: verification is offered
canVerify(payment) == getSafeStatus(payment) \in {"pending", "processing"}

PaymentMatchesSearch(payment, searchTerm) ==
    LET searchLower == toLowerCase(searchTerm)
    IN  \/ includes(toLowerCase(getSafePaymentUserName(payment)), searchLower)
        \/ includes(toLowerCase(getSafePaymentEmail(payment)), searchLower)
        \/ includes(toLowerCase(getSafePaymentPhone(payment)), searchLower)
        \/ includes(toLowerCase(getSafePaymentPlanName(payment)), searchLower)
        \/ includes(toLowerCase(getTransactionId(payment)), searchLower)

\* a variant that drops the first record of its result
PaymentsFilterEffect_DropsFirst(payments, searchTerm, statusFilter, dateFilter, clock) ==
    LET bySearch == IF searchTerm # ""
                    THEN SelectSeq(payments,
                                   LAMBDA q : PaymentMatchesSearch(q, searchTerm))
                    ELSE payments
        byStatus == IF statusFilter # "all"
                    THEN SelectSeq(bySearch, LAMBDA q : getSafeStatus(q) = statusFilter)
                    ELSE bySearch
        byDate == IF dateFilter # "all"
                  THEN SelectSeq(byStatus, LAMBDA q :
                           InDateBucket(getSafeCreatedAt(q, clock), dateFilter, clock))
                  ELSE byStatus
    IN  IF Len(byDate) > 0 THEN Tail(byDate) ELSE byDate

PaymentsFilterEffect(payments, searchTerm, statusFilter, dateFilter, clock) ==
    LET bySearch == IF searchTerm # ""
                    THEN SelectSeq(payments,
                                   LAMBDA q : PaymentMatchesSearch(q, searchTerm))
                    ELSE payments
        byStatus == IF statusFilter # "all"
                    THEN SelectSeq(bySearch, LAMBDA q : getSafeStatus(q) = statusFilter)
                    ELSE bySearch
    IN  IF dateFilter # "all"
        THEN SelectSeq(byStatus, LAMBDA q :
                 InDateBucket(getSafeCreatedAt(q, clock), dateFilter, clock))
        ELSE byStatus

(***************************************************************************)
(* A response body as axios hands it over: null, undefined, a scalar, an   *)
(* array of records, or an object whose properties are such values.        *)
(***************************************************************************)
JsNull == [type |-> "null"]
JsUndefined == [type |-> "undefined"]
JsScalar == [type |-> "string"]
JsArray(items) == [type |-> "array", items |-> items]
JsObject(fields) == [type |-> "object", fields |-> fields]

\* Array.isArray(v)
IsArray(v) == v.type = "array"
\* v?.k : undefined on null, undefined, a scalar or a missing property
Prop(v, k) ==
    IF v.type = "object" /\ k \in DOMAIN v.fields THEN v.fields[k] ELSE JsUndefined
\* truthiness of a response value (an empty scalar does not occur)
JsTruthy(v) == v.type \notin {"null", "undefined"}

(***************************************************************************)
(* The response normalisers, one per view.                                 *)
(***************************************************************************)
extractAdminsFromResponse(response) ==
    IF IsArray(response) THEN response.items
    ELSE IF IsArray(Prop(response, "admins")) THEN Prop(response, "admins").items
    ELSE IF IsArray(Prop(response, "users")) THEN Prop(response, "users").items
    ELSE IF IsArray(Prop(response, "data")) THEN Prop(response, "data").items
    ELSE IF JsTruthy(Prop(response, "data"))
            /\ IsArray(Prop(Prop(response, "data"), "admins"))
         THEN Prop(Prop(response, "data"), "admins").items
    ELSE << >>

extractUsersFromResponse(response) ==
    IF IsArray(Prop(response, "data")) THEN Prop(response, "data").items
    ELSE << >>

extractAssistantsFromResponse(response) ==
    IF IsArray(Prop(response, "data")) THEN Prop(response, "data").items
    ELSE << >>

extractPaymentsFromResponse(response) ==
    IF IsArray(response) THEN response.items
    ELSE IF IsArray(Prop(response, "payments")) THEN Prop(response, "payments").items
    ELSE IF IsArray(Prop(response, "data")) THEN Prop(response, "data").items
    ELSE << >>

Views == {"admins", "users", "assistants", "payments"}

\* the normaliser of a view
Normalize(kind, response) ==
    CASE kind = "admins" -> extractAdminsFromResponse(response)
      [] kind = "users" -> extractUsersFromResponse(response)
      [] kind = "assistants" -> extractAssistantsFromResponse(response)
      [] kind = "payments" -> extractPaymentsFromResponse(response)

(***************************************************************************)
(* The envelopes a backend may answer with, built from a shape and the     *)
(* records it carries.                                                     *)
(***************************************************************************)
Shapes ==
    {"bare", "named", "alias", "generic", "nested", "nestedAlias",
     "null", "undefined", "scalar", "noList", "notArray"}

\* the envelope the backend of a running view answers with, which every view
\* accepts (SpecNormalize runs the normalisers on every shape)
BackendShapes == {"generic"}

\* a property named for another record kind
AliasField(kind) == IF kind = "admins" THEN "users" ELSE "admins"

Envelope(shape, kind, items) ==
    CASE shape = "bare" -> JsArray(items)
      [] shape = "named" ->
            JsObject(("success" :> JsScalar) @@ (kind :> JsArray(items)))
      [] shape = "alias" ->
            JsObject(("success" :> JsScalar) @@ (AliasField(kind) :> JsArray(items)))
      [] shape = "generic" ->
            JsObject(("success" :> JsScalar) @@ ("data" :> JsArray(items)))
      [] shape = "nested" ->
            JsObject(("success" :> JsScalar)
                     @@ ("data" :> JsObject(kind :> JsArray(items))))
      [] shape = "nestedAlias" ->
            JsObject(("success" :> JsScalar)
                     @@ ("data" :> JsObject(AliasField(kind) :> JsArray(items))))
      [] shape = "null" -> JsNull
      [] shape = "undefined" -> JsUndefined
      [] shape = "scalar" -> JsScalar
      [] shape = "noList" ->
            JsObject(("success" :> JsScalar) @@ ("message" :> JsScalar))
      [] shape = "notArray" ->
            JsObject(("success" :> JsScalar) @@ ("data" :> JsScalar))

(***************************************************************************)
(* The records a backend may hold.  Identifiers are unique within a        *)
(* response; the other properties follow from the identifier, except a     *)
(* payment's status, which the backend changes between two fetches.        *)
(***************************************************************************)
Id(i) ==
    "id" \o (IF i >= 10 THEN CharAt(Digits, (i \div 10) + 1) ELSE "")
         \o CharAt(Digits, (i % 10) + 1)
Ids == {Id(i) : i \in 1..NumIds}
AdminIds == {Id(i) : i \in 1..NumAdmins}
NoId == "null"       \* the value null of an identifier-typed state

Clock == 40 * SecondsPerDay + 43200     \* the session's instant: noon of a day

Variant(i) == i % 3

AdminOf(i) ==
    CASE Variant(i) = 1 ->
            [_id |-> Id(i), firstname |-> "Alice", lastname |-> "Stone",
             email |-> "alice@jobbinex.com", phonenumber |-> "0711",
             role |-> "Owner"]
      [] Variant(i) = 2 ->
            [_id |-> Id(i), firstname |-> "Bob", lastname |-> "Reed",
             email |-> "bob@jobbinex.com"]
      [] OTHER ->
            [_id |-> Id(i), firstname |-> "Carol", lastname |-> "Diaz",
             email |-> "carol@jobbinex.com", phonenumber |-> "0733"]

UserOf(i) ==
    CASE Variant(i) = 1 ->
            [_id |-> Id(i), firstname |-> "Alice", lastname |-> "Stone",
             email |-> "alice@mail.com", phonenumber |-> "0711",
             planName |-> "Premium", planExpiresAt |-> Clock + SecondsPerDay,
             assistant |-> "id9", jobs |-> 2,
             createdAt |-> Clock - 3600]
      [] Variant(i) = 2 ->
            [_id |-> Id(i), firstname |-> "Bob",
             createdAt |-> Clock - 8 * SecondsPerDay]
      [] OTHER ->
            [_id |-> Id(i), firstname |-> "Carol", lastname |-> "Diaz",
             email |-> "carol@mail.com", planName |-> "Premium Plus",
             preferredRoles |-> "Analyst", jobs |-> 0]

AssistantOf(i) ==
    CASE Variant(i) = 1 ->
            [_id |-> Id(i), firstname |-> "Alice", lastname |-> "Stone",
             email |-> "alice@jobbinex.com", status |-> "online",
             clients |-> 3, jobs |-> 1, messages |-> 4,
             createdAt |-> Clock - 3600]
      [] Variant(i) = 2 ->
            [_id |-> Id(i), firstname |-> "Bob",
             createdAt |-> Clock - 8 * SecondsPerDay]
      [] OTHER ->
            [_id |-> Id(i), firstname |-> "Carol", lastname |-> "Diaz",
             email |-> "carol@jobbinex.com", status |-> "busy", clients |-> 0]

\* the statuses a response gives a payment; "absent" leaves the property out
PaymentStatuses == {"absent", "pending", "completed"}

PaymentBase(i) ==
    CASE Variant(i) = 1 ->
            [_id |-> Id(i), userFirstName |-> "Alice", userLastName |-> "Stone",
             userEmail |-> "alice@mail.com", planName |-> "Premium",
             amount |-> 4900, planPrice |-> 5900, currency |-> "USD",
             createdAt |-> Clock - 3600]
      [] Variant(i) = 2 -> [_id |-> Id(i), userFirstName |-> "Bob"]
      [] OTHER ->
            [_id |-> Id(i), userFirstName |-> "Carol", planName |-> "Basic",
             planPrice |-> 1900, stripeSessionId |-> "cs_77"]

PaymentOf(i, status) ==
    IF status = "absent" THEN PaymentBase(i)
    ELSE PaymentBase(i) @@ ("status" :> status)

\* the records a response may give for identifier i
RecordsAt(kind, i) ==
    CASE kind = "admins" -> {AdminOf(i)}
      [] kind = "users" -> {UserOf(i)}
      [] kind = "assistants" -> {AssistantOf(i)}
      [] kind = "payments" -> {PaymentOf(i, st) : st \in PaymentStatuses}

Count(kind) == IF kind = "admins" THEN NumAdmins ELSE NumIds

RecordsOf(kind) == UNION {RecordsAt(kind, i) : i \in 1..Count(kind)}

\* the responses' record sequences: the backend answers in the order of its
\* store, so a sequence holds records of increasing number
RECURSIVE ListsFrom(_, _)
ListsFrom(kind, i) ==
    IF i > Count(kind) THEN {<< >>}
    ELSE ListsFrom(kind, i + 1)
         \cup {<<r>> \o l : r \in RecordsAt(kind, i), l \in ListsFrom(kind, i + 1)}

Lists(kind) == ListsFrom(kind, 1)

AdminLists == Lists("admins")
\* the response that holds the first NumLong records of the store
LongList(kind) ==
    [i \in 1..NumLong |-> IF kind = "users" THEN UserOf(i) ELSE AssistantOf(i)]

UserLists == Lists("users") \cup {LongList("users")}
AssistantLists == Lists("assistants") \cup {LongList("assistants")}
\* the responses of the payments' backend, which holds the payments numbered
\* 1..NumPayments
PaymentLists ==
    {l \in Lists("payments") :
        \A k \in DOMAIN l : \E i \in 1..NumPayments : l[k]._id = Id(i)}

\* list.reverse()
Reverse(l) == [i \in 1..Len(l) |-> l[Len(l) + 1 - i]]

\* a variant that drops the record after the one asked for as well
WithoutId_AndNext(l, id) ==
    LET drop == {k \in DOMAIN l : l[k]._id = id \/ (k > 1 /\ l[k - 1]._id = id)}
        keep == {k \in DOMAIN l : k \notin drop}
        RECURSIVE Pick(_)
        Pick(k) == IF k > Len(l) THEN << >>
                   ELSE IF k \in keep THEN <<l[k]>> \o Pick(k + 1) ELSE Pick(k + 1)
    IN  Pick(1)

\* list.filter(x => x._id !== id)
WithoutId(l, id) == SelectSeq(l, LAMBDA x : x._id # id)

NoRecord == [null |-> TRUE]      \* the value null of a record-typed state

\* how a request can fail: no response at all (status 0) or an HTTP error status
ErrorStatuses == {0, 401, 403, 404, 500}
\* how a write request can end
WriteOutcomes ==
    {"success", "successFalse", "successFalseMessage", "httpError", "networkError"}
\* how a call of the token store can end
StoreOutcomes == {"resolved", "rejected"}

SearchTerms == {"", "ali"}

\* the options of the views' selectors
PlanFilters == {"all", "active", "elite", "premium", "basic", "none"}
AssistantStatusFilters == {"all", "online", "offline", "busy", "away"}
PaymentStatusFilters ==
    {"all", "pending", "processing", "completed", "failed", "canceled"}
DateFilters == {"all", "today", "yesterday", "last7", "last30"}

itemsPerPage == 10

(***************************************************************************)
(* State.                                                                  *)
(***************************************************************************)
VARIABLES
    view,               \* the mounted view
    navigatedTo,        \* where the session went from the view, "" while it is mounted
    authToken,          \* localforage holds an "authToken"
    logoutRequests,     \* the removeItem("authToken") calls in flight
    abandoned,          \* the calls in flight of views that have unmounted
    toasts,             \* the messages the last step emitted
    loading, searchTerm, dateFilter,      \* state every view has
    effectPending,      \* a dependency of the filter effect has changed
    fetchRequests,      \* the number of collection GETs in flight
    admins, deletingId,
    deleteRequests,     \* the handleDeleteAdmin calls in flight
    users, filteredUsers, planFilter, currentPage,
    assistants, filteredAssistants, statusFilter,
    payments, filteredPayments, verifyingId, selectedPayment, verificationNotes,
    verifyRequests,     \* the verify-payment POSTs in flight
    normKind, normShape, normItems, normDone, normResult  \* one run of a normaliser

envVars == <<view, navigatedTo, authToken, logoutRequests, abandoned>>
filterVars == <<searchTerm, dateFilter, planFilter, statusFilter, currentPage>>
adminVars == <<admins, deletingId, deleteRequests>>
userVars == <<users, filteredUsers>>
assistantVars == <<assistants, filteredAssistants>>
paymentVars ==
    <<payments, filteredPayments, verifyingId, selectedPayment, verificationNotes,
      verifyRequests>>
normVars == <<normKind, normShape, normItems, normDone, normResult>>

vars ==
    <<envVars, toasts, loading, effectPending, fetchRequests, filterVars, adminVars,
      userVars, assistantVars, paymentVars, normVars>>

\* the view is on screen and shows its list, not the spinner
Mounted == navigatedTo = ""
\* the layout with the tabs and Logout is on screen: every path but "/",
\* the login page, leads into it
LayoutShown == navigatedTo # "/"
Interactive == Mounted /\ ~loading /\ ~effectPending

\* the state of a freshly mounted view whose mount effect has started the fetch
ViewInit ==
    /\ navigatedTo = ""
    /\ authToken \in BOOLEAN
    /\ logoutRequests = 0
    /\ abandoned = EmptyBag
    /\ toasts = << >>
    /\ loading = TRUE
    /\ searchTerm = "" /\ dateFilter = "all" /\ planFilter = "all"
    /\ statusFilter = "all" /\ currentPage = 1
    /\ effectPending = FALSE
    /\ fetchRequests = 1
    /\ admins = << >> /\ deletingId = NoId /\ deleteRequests = EmptyBag
    /\ users = << >> /\ filteredUsers = << >>
    /\ assistants = << >> /\ filteredAssistants = << >>
    /\ payments = << >> /\ filteredPayments = << >>
    /\ verifyingId = NoId /\ selectedPayment = NoRecord /\ verificationNotes = ""
    /\ verifyRequests = EmptyBag

NormIdle ==
    /\ normKind = "admins" /\ normShape = "bare" /\ normItems = << >>
    /\ normDone = FALSE /\ normResult = << >>

Init == view \in Views /\ ViewInit /\ NormIdle

(***************************************************************************)
(* Leaving a view.  A navigate() away from the view's route unmounts the   *)
(* view: React discards its state, and the calls it has in flight are not  *)
(* cancelled.  Their continuations still run: the state setters of an      *)
(* unmounted component do nothing, the toasts and navigate() still act.    *)
(***************************************************************************)
\* a call of kind call that the view of left in flight
Abandoned(call, of, stage, status) ==
    [call |-> call, of |-> of, stage |-> stage, status |-> status]

\* the calls the mounted view leaves in flight: fetches GETs, the deletes and
\* the verifies
Leaving(fetches, deletes, verifies) ==
    (IF fetches = 0 THEN EmptyBag
     ELSE [c \in {Abandoned("fetch", view, "", "")} |-> fetches])
    (+) BagOfAll(LAMBDA req : Abandoned("delete", view, req.stage, ""), deletes)
    (+) BagOfAll(LAMBDA req : Abandoned("verify", view, "", req.status), verifies)

\* the state of the view is gone
ViewDiscarded ==
    /\ loading' = FALSE
    /\ effectPending' = FALSE
    /\ fetchRequests' = 0
    /\ searchTerm' = "" /\ dateFilter' = "all" /\ planFilter' = "all"
    /\ statusFilter' = "all" /\ currentPage' = 1
    /\ admins' = << >> /\ deletingId' = NoId /\ deleteRequests' = EmptyBag
    /\ users' = << >> /\ filteredUsers' = << >>
    /\ assistants' = << >> /\ filteredAssistants' = << >>
    /\ payments' = << >> /\ filteredPayments' = << >>
    /\ verifyingId' = NoId /\ selectedPayment' = NoRecord /\ verificationNotes' = ""
    /\ verifyRequests' = EmptyBag

\* a view mounts: its state is the initial one and its mount effect fetches
ViewMounted ==
    /\ loading' = TRUE
    /\ effectPending' = FALSE
    /\ fetchRequests' = 1
    /\ searchTerm' = "" /\ dateFilter' = "all" /\ planFilter' = "all"
    /\ statusFilter' = "all" /\ currentPage' = 1
    /\ admins' = << >> /\ deletingId' = NoId /\ deleteRequests' = EmptyBag
    /\ users' = << >> /\ filteredUsers' = << >>
    /\ assistants' = << >> /\ filteredAssistants' = << >>
    /\ payments' = << >> /\ filteredPayments' = << >>
    /\ verifyingId' = NoId /\ selectedPayment' = NoRecord /\ verificationNotes' = ""
    /\ verifyRequests' = EmptyBag

(***************************************************************************)
(* Fetching a collection.  fetchX is the call up to its await (the refresh *)
(* control, and for payments also a successful verify); fetchXResolved and *)
(* fetchXRejected are the continuations, run when one of the requests in   *)
(* flight is answered.  No request is ever cancelled; a response status of *)
(* 401 leaves the admins and the payments view.                            *)
(***************************************************************************)
\* a variant that shows the spinner without sending the GET
StartFetch_NoRequest ==
    /\ loading' = TRUE
    /\ UNCHANGED fetchRequests

StartFetch ==
    /\ loading' = TRUE
    /\ fetchRequests' = fetchRequests + 1

CanRefresh(v) ==
    /\ view = v
    /\ Interactive
    /\ fetchRequests < MaxInFlight

fetchAdmins ==
    /\ CanRefresh("admins")
    /\ StartFetch
    /\ toasts' = << >>
    /\ UNCHANGED <<envVars, effectPending, filterVars, adminVars, userVars,
                   assistantVars, paymentVars, normVars>>

fetchAdminsResolved(shape, items) ==
    LET adminList == extractAdminsFromResponse(Envelope(shape, "admins", items))
    IN  /\ view = "admins" /\ ~effectPending
        /\ fetchRequests > 0
        /\ fetchRequests' = fetchRequests - 1
        /\ admins' = adminList
        /\ toasts' = IF Len(adminList) = 0 THEN << "No admins found" >> ELSE << >>
        /\ loading' = FALSE
        /\ UNCHANGED <<envVars, effectPending, filterVars, deletingId, deleteRequests,
                       userVars, assistantVars, paymentVars, normVars>>

fetchAdminsRejected(status) ==
    /\ view = "admins" /\ ~effectPending
    /\ fetchRequests > 0
    /\ toasts' = << "Failed to load admin data." >>
    /\ IF status = 401
       THEN /\ navigatedTo' = "/login"
            /\ abandoned' = abandoned (+)
                   Leaving(fetchRequests - 1, deleteRequests, verifyRequests)
            /\ ViewDiscarded
            /\ UNCHANGED <<view, authToken, logoutRequests, normVars>>
       ELSE /\ fetchRequests' = fetchRequests - 1
            /\ admins' = << >>
            /\ loading' = FALSE
            /\ UNCHANGED <<envVars, effectPending, filterVars, deletingId,
                           deleteRequests, userVars, assistantVars, paymentVars,
                           normVars>>

fetchUsers ==
    /\ CanRefresh("users")
    /\ StartFetch
    /\ toasts' = << >>
    /\ UNCHANGED <<envVars, effectPending, filterVars, adminVars, userVars,
                   assistantVars, paymentVars, normVars>>

fetchUsersResolved(shape, items) ==
    LET userList == Reverse(extractUsersFromResponse(Envelope(shape, "users", items)))
    IN  /\ view = "users" /\ ~effectPending
        /\ fetchRequests > 0
        /\ fetchRequests' = fetchRequests - 1
        /\ users' = userList
        /\ filteredUsers' = userList
        /\ toasts' = IF Len(userList) = 0 THEN << "No users found" >> ELSE << >>
        /\ loading' = FALSE
        /\ effectPending' = TRUE
        /\ UNCHANGED <<envVars, filterVars, adminVars, assistantVars, paymentVars,
                       normVars>>

UsersErrorToast(status) ==
    CASE status = 401 -> << "Access denied. Please check permissions." >>
      [] status = 403 -> << "Forbidden access to users data." >>
      [] status = 404 -> << "Users endpoint not found." >>
      [] status = 500 -> << "Server error. Please try again later." >>
      [] OTHER -> << >>

fetchUsersRejected(status) ==
    /\ view = "users" /\ ~effectPending
    /\ fetchRequests > 0
    /\ fetchRequests' = fetchRequests - 1
    /\ toasts' = << "Failed to load user data." >> \o UsersErrorToast(status)
    /\ users' = << >>
    /\ filteredUsers' = << >>
    /\ loading' = FALSE
    /\ effectPending' = TRUE
    /\ UNCHANGED <<envVars, filterVars, adminVars, assistantVars, paymentVars,
                   normVars>>

fetchAssistants ==
    /\ CanRefresh("assistants")
    /\ StartFetch
    /\ toasts' = << >>
    /\ UNCHANGED <<envVars, effectPending, filterVars, adminVars, userVars,
                   assistantVars, paymentVars, normVars>>

fetchAssistantsResolved(shape, items) ==
    LET assistantList ==
            Reverse(extractAssistantsFromResponse(Envelope(shape, "assistants", items)))
    IN  /\ view = "assistants" /\ ~effectPending
        /\ fetchRequests > 0
        /\ fetchRequests' = fetchRequests - 1
        /\ assistants' = assistantList
        /\ filteredAssistants' = assistantList
        /\ toasts' = IF Len(assistantList) = 0
                      THEN << "No assistants found" >> ELSE << >>
        /\ loading' = FALSE
        /\ effectPending' = TRUE
        /\ UNCHANGED <<envVars, filterVars, adminVars, userVars, paymentVars,
                       normVars>>

AssistantsErrorToast(status) ==
    CASE status = 401 -> << "Access denied. Please check permissions." >>
      [] status = 403 -> << "Forbidden access to assistants data." >>
      [] status = 404 -> << "Assistants endpoint not found." >>
      [] status = 500 -> << "Server error. Please try again later." >>
      [] OTHER -> << "Failed to load assistants data." >>

\* a variant whose catch block keeps the assistants loaded before
fetchAssistantsRejected_KeepsList(status) ==
    /\ view = "assistants" /\ ~effectPending
    /\ fetchRequests > 0
    /\ fetchRequests' = fetchRequests - 1
    /\ toasts' = AssistantsErrorToast(status)
    /\ loading' = FALSE
    /\ effectPending' = TRUE
    /\ UNCHANGED <<envVars, filterVars, adminVars, userVars, assistantVars,
                   paymentVars, normVars>>

fetchAssistantsRejected(status) ==
    /\ view = "assistants" /\ ~effectPending
    /\ fetchRequests > 0
    /\ fetchRequests' = fetchRequests - 1
    /\ toasts' = AssistantsErrorToast(status)
    /\ assistants' = << >>
    /\ filteredAssistants' = << >>
    /\ loading' = FALSE
    /\ effectPending' = TRUE
    /\ UNCHANGED <<envVars, filterVars, adminVars, userVars, paymentVars, normVars>>

fetchPayments ==
    /\ CanRefresh("payments")
    /\ StartFetch
    /\ toasts' = << >>
    /\ UNCHANGED <<envVars, effectPending, filterVars, adminVars, userVars,
                   assistantVars, paymentVars, normVars>>

\* a variant that drops a response while a later fetch is still in flight
fetchPaymentsResolved_DropsStale(shape, items) ==
    LET paymentList ==
            Reverse(extractPaymentsFromResponse(Envelope(shape, "payments", items)))
        stale == fetchRequests > 1
    IN  /\ view = "payments" /\ ~effectPending
        /\ fetchRequests > 0
        /\ fetchRequests' = fetchRequests - 1
        /\ payments' = IF stale THEN payments ELSE paymentList
        /\ filteredPayments' = IF stale THEN filteredPayments ELSE paymentList
        /\ toasts' = IF Len(paymentList) = 0 THEN << "No payments found" >> ELSE << >>
        /\ loading' = FALSE
        /\ effectPending' = TRUE
        /\ UNCHANGED <<envVars, filterVars, adminVars, userVars, assistantVars,
                       verifyingId, selectedPayment, verificationNotes, verifyRequests,
                       normVars>>

fetchPaymentsResolved(shape, items) ==
    LET paymentList ==
            Reverse(extractPaymentsFromResponse(Envelope(shape, "payments", items)))
    IN  /\ view = "payments" /\ ~effectPending
        /\ fetchRequests > 0
        /\ fetchRequests' = fetchRequests - 1
        /\ payments' = paymentList
        /\ filteredPayments' = paymentList
        /\ toasts' = IF Len(paymentList) = 0 THEN << "No payments found" >> ELSE << >>
        /\ loading' = FALSE
        /\ effectPending' = TRUE
        /\ UNCHANGED <<envVars, filterVars, adminVars, userVars, assistantVars,
                       verifyingId, selectedPayment, verificationNotes, verifyRequests,
                       normVars>>

fetchPaymentsRejected(status) ==
    /\ view = "payments" /\ ~effectPending
    /\ fetchRequests > 0
    /\ toasts' = << "Failed to load payment data." >>
    /\ IF status = 401
       THEN /\ navigatedTo' = "/"
            /\ abandoned' = abandoned (+)
                   Leaving(fetchRequests - 1, deleteRequests, verifyRequests)
            /\ ViewDiscarded
            /\ UNCHANGED <<view, authToken, logoutRequests, normVars>>
       ELSE /\ fetchRequests' = fetchRequests - 1
            /\ payments' = << >>
            /\ filteredPayments' = << >>
            /\ loading' = FALSE
            /\ effectPending' = TRUE
            /\ UNCHANGED <<envVars, filterVars, adminVars, userVars, assistantVars,
                           verifyingId, selectedPayment, verificationNotes,
                           verifyRequests, normVars>>

(***************************************************************************)
(* The filter effects: run after every render in which one of their        *)
(* dependencies changed, before any later event is handled.                *)
(***************************************************************************)
\* a variant that keeps the page
UsersApplyFilters_KeepsPage ==
    /\ view = "users" /\ effectPending
    /\ filteredUsers' =
           UsersFilterEffect(users, searchTerm, planFilter, dateFilter, Clock)
    /\ effectPending' = FALSE
    /\ toasts' = << >>
    /\ UNCHANGED <<envVars, loading, fetchRequests, filterVars, adminVars, users,
                   assistantVars, paymentVars, normVars>>

UsersApplyFilters ==
    /\ view = "users" /\ effectPending
    /\ filteredUsers' =
           UsersFilterEffect(users, searchTerm, planFilter, dateFilter, Clock)
    /\ currentPage' = 1
    /\ effectPending' = FALSE
    /\ toasts' = << >>
    /\ UNCHANGED <<envVars, loading, fetchRequests, searchTerm, dateFilter,
                   planFilter, statusFilter, adminVars, users, assistantVars,
                   paymentVars, normVars>>

AssistantsApplyFilters ==
    /\ view = "assistants" /\ effectPending
    /\ filteredAssistants' =
           AssistantsFilterEffect(assistants, searchTerm, statusFilter, dateFilter,
                                  Clock)
    /\ currentPage' = 1
    /\ effectPending' = FALSE
    /\ toasts' = << >>
    /\ UNCHANGED <<envVars, loading, fetchRequests, searchTerm, dateFilter,
                   planFilter, statusFilter, adminVars, userVars, assistants,
                   paymentVars, normVars>>

PaymentsApplyFilters ==
    /\ view = "payments" /\ effectPending
    /\ filteredPayments' =
           PaymentsFilterEffect(payments, searchTerm, statusFilter, dateFilter, Clock)
    /\ effectPending' = FALSE
    /\ toasts' = << >>
    /\ UNCHANGED <<envVars, loading, fetchRequests, filterVars, adminVars, userVars,
                   assistantVars, payments, verifyingId, selectedPayment,
                   verificationNotes, verifyRequests, normVars>>

\* the search box's onChange
setSearchTerm(term) ==
    /\ Interactive
    /\ term # searchTerm
    /\ searchTerm' = term
    /\ effectPending' = (view # "admins")
    /\ toasts' = << >>
    /\ UNCHANGED <<envVars, loading, fetchRequests, dateFilter, planFilter,
                   statusFilter, currentPage, adminVars, userVars, assistantVars,
                   paymentVars, normVars>>

\* the plan selector's onChange
setPlanFilter(value) ==
    /\ view = "users" /\ Interactive
    /\ value # planFilter
    /\ planFilter' = value
    /\ effectPending' = TRUE
    /\ toasts' = << >>
    /\ UNCHANGED <<envVars, loading, fetchRequests, searchTerm, dateFilter,
                   statusFilter, currentPage, adminVars, userVars, assistantVars,
                   paymentVars, normVars>>

\* the status selector's onChange
setStatusFilter(value) ==
    /\ view \in {"assistants", "payments"} /\ Interactive
    /\ value \in (IF view = "assistants" THEN AssistantStatusFilters
                                         ELSE PaymentStatusFilters)
    /\ value # statusFilter
    /\ statusFilter' = value
    /\ effectPending' = TRUE
    /\ toasts' = << >>
    /\ UNCHANGED <<envVars, loading, fetchRequests, searchTerm, dateFilter,
                   planFilter, currentPage, adminVars, userVars, assistantVars,
                   paymentVars, normVars>>

\* a variant in which the date filter is no dependency of the filter effect
setDateFilter_NoEffect(value) ==
    /\ view \in {"users", "assistants", "payments"} /\ Interactive
    /\ value # dateFilter
    /\ dateFilter' = value
    /\ toasts' = << >>
    /\ UNCHANGED <<envVars, loading, effectPending, fetchRequests, searchTerm,
                   planFilter, statusFilter, currentPage, adminVars, userVars,
                   assistantVars, paymentVars, normVars>>

\* the date selector's onChange
setDateFilter(value) ==
    /\ view \in {"users", "assistants", "payments"} /\ Interactive
    /\ value # dateFilter
    /\ dateFilter' = value
    /\ effectPending' = TRUE
    /\ toasts' = << >>
    /\ UNCHANGED <<envVars, loading, fetchRequests, searchTerm, planFilter,
                   statusFilter, currentPage, adminVars, userVars, assistantVars,
                   paymentVars, normVars>>

(***************************************************************************)
(* Pagination of the users and the assistants.                             *)
(***************************************************************************)
Paginated == {"users", "assistants"}

\* the derived list the mounted view renders its pages from
Filtered == IF view = "users" THEN filteredUsers ELSE filteredAssistants

\* Math.ceil(filtered.length / itemsPerPage)
totalPages == (Len(Filtered) + itemsPerPage - 1) \div itemsPerPage

Max(a, b) == IF a >= b THEN a ELSE b
Min(a, b) == IF a <= b THEN a ELSE b

setCurrentPage(page) ==
    /\ currentPage' = page
    /\ toasts' = << >>
    /\ UNCHANGED <<envVars, loading, effectPending, fetchRequests, searchTerm,
                   dateFilter, planFilter, statusFilter, adminVars, userVars,
                   assistantVars, paymentVars, normVars>>

\* the table's Previous control
previousPage ==
    /\ view \in Paginated /\ Interactive
    /\ totalPages > 1 /\ currentPage # 1
    /\ setCurrentPage(Max(currentPage - 1, 1))

\* the table's Next control
nextPage ==
    /\ view \in Paginated /\ Interactive
    /\ totalPages > 1 /\ currentPage # totalPages
    /\ setCurrentPage(Min(currentPage + 1, totalPages))

\* a variant whose control is shown whatever the length of the list
loadMore_Always ==
    /\ view \in Paginated /\ Interactive
    /\ currentPage < 3
    /\ setCurrentPage(currentPage + 1)

\* the card list's Load More control
loadMore ==
    /\ view \in Paginated /\ Interactive
    /\ Len(Filtered) > itemsPerPage * currentPage
    /\ setCurrentPage(currentPage + 1)

\* l.slice(begin, end), for 0 <= begin <= end
slice(l, begin, end) == SubSeq(l, begin + 1, Min(end, Len(l)))

\* a variant whose first index is one too far
DesktopView_SkipsOne(page) ==
    LET indexOfLastItem == page * itemsPerPage
        indexOfFirstItem == indexOfLastItem - itemsPerPage + 1
    IN  slice(Filtered, indexOfFirstItem, indexOfLastItem)

\* the records the table of DesktopView shows when the current page is page
DesktopView(page) ==
    LET indexOfLastItem == page * itemsPerPage
        indexOfFirstItem == indexOfLastItem - itemsPerPage
    IN  slice(Filtered, indexOfFirstItem, indexOfLastItem)

\* the records the card list of MobileView shows
MobileView(page) == slice(Filtered, 0, itemsPerPage * page)

(***************************************************************************)
(* The statistics cards, computed at each render.                          *)
(***************************************************************************)
\* new Date(x.createdAt) >= today, today being the local midnight; an absent
\* createdAt gives an invalid date, which compares false
CreatedToday(x) == "createdAt" \in DOMAIN x /\ x.createdAt >= Midnight(Clock)

getJobCount(x) == LengthOrZero(x, "jobs")
getClientCount(assistant) == LengthOrZero(assistant, "clients")
getMessageCount(assistant) == LengthOrZero(assistant, "messages")
getSafeAmount(payment) ==
    IF HasNumber(payment, "amount") THEN payment.amount
    ELSE NumberOrElse(payment, "planPrice", 0)
\* a variant without the fallback
getSafeCurrency_NoFallback(payment) == Interpolate(payment, "currency")
getSafeCurrency(payment) == OrElse(payment, "currency", "GBP")

\* new Date(t).toLocaleDateString("en-US", ...): the text of the instant's day
toLocaleDateString(t) == "day " \o ToString(t \div SecondsPerDay)
getPlanExpiry(user) ==
    IF "planExpiresAt" \notin DOMAIN user THEN "No active plan"
    ELSE toLocaleDateString(user.planExpiresAt)
getHasAssistant(user) == IF Has(user, "assistant") THEN "Yes" ELSE "No"

\* a variant that counts the users shown
calculateStatsUsers_Shown ==
    [total |-> Len(filteredUsers),
     withPlan |-> Len(SelectSeq(filteredUsers, LAMBDA u : Has(u, "planName"))),
     withJobs |-> Len(SelectSeq(filteredUsers, LAMBDA u : HasNumber(u, "jobs"))),
     withAssistant |-> Len(SelectSeq(filteredUsers, LAMBDA u : Has(u, "assistant"))),
     newToday |-> Len(SelectSeq(filteredUsers, CreatedToday))]

calculateStatsUsers ==
    [total |-> Len(users),
     withPlan |-> Len(SelectSeq(users, LAMBDA u : Has(u, "planName"))),
     withJobs |-> Len(SelectSeq(users, LAMBDA u : HasNumber(u, "jobs"))),
     withAssistant |-> Len(SelectSeq(users, LAMBDA u : Has(u, "assistant"))),
     newToday |-> Len(SelectSeq(users, CreatedToday))]

calculateStatsAssistants ==
    [total |-> Len(assistants),
     online |-> Len(SelectSeq(assistants, LAMBDA a : getSafeAssistantStatus(a) = "online")),
     offline |-> Len(SelectSeq(assistants, LAMBDA a : getSafeAssistantStatus(a) = "offline")),
     busy |-> Len(SelectSeq(assistants, LAMBDA a : getSafeAssistantStatus(a) = "busy")),
     away |-> Len(SelectSeq(assistants, LAMBDA a : getSafeAssistantStatus(a) = "away")),
     totalClients |-> Sum([i \in 1..Len(assistants) |-> getClientCount(assistants[i])]),
     totalJobs |-> Sum([i \in 1..Len(assistants) |-> getJobCount(assistants[i])]),
     newToday |-> Len(SelectSeq(assistants, CreatedToday))]

calculateStatsPayments ==
    LET done == SelectSeq(payments, LAMBDA q : getSafeStatus(q) = "completed")
    IN  [total |-> Len(payments),
         pending |-> Len(SelectSeq(payments, LAMBDA q : getSafeStatus(q) = "pending")),
         processing |-> Len(SelectSeq(payments, LAMBDA q : getSafeStatus(q) = "processing")),
         completed |-> Len(done),
         failed |-> Len(SelectSeq(payments, LAMBDA q : getSafeStatus(q) = "failed")),
         canceled |-> Len(SelectSeq(payments, LAMBDA q : getSafeStatus(q) = "canceled")),
         totalAmount |-> Sum([i \in 1..Len(done) |-> getSafeAmount(done[i])])]

\* const stats = calculateStats() of the mounted view
stats ==
    CASE view = "users" -> calculateStatsUsers
      [] view = "assistants" -> calculateStatsAssistants
      [] view = "payments" -> calculateStatsPayments
      [] OTHER -> [total |-> Len(admins)]

(***************************************************************************)
(* Deleting an admin.  A call in flight keeps the admins of the render it  *)
(* was started from (the closure of handleDeleteAdmin) and is either       *)
(* waiting for the token ("getItem") or for the backend ("post").          *)
(***************************************************************************)
ServerMessage == "message of the backend"

\* await axios.post(...) returns instead of throwing: the body is not looked at
DeleteSucceeded(outcome) ==
    outcome \in {"success", "successFalse", "successFalseMessage"}

handleDeleteAdmin(adminId, confirmed) ==
    /\ view = "admins" /\ Interactive
    /\ LET shown == filteredAdmins(admins, searchTerm)
       IN  \E k \in DOMAIN shown : shown[k]._id = adminId
    /\ deletingId # adminId
    /\ toasts' = << >>
    /\ IF confirmed
       THEN /\ BagCardinality(deleteRequests) < MaxInFlight
            /\ deletingId' = adminId
            /\ deleteRequests' = deleteRequests (+) SetToBag(
                   {[id |-> adminId, admins |-> admins, stage |-> "getItem"]})
       ELSE UNCHANGED <<deletingId, deleteRequests>>
    /\ UNCHANGED <<envVars, loading, effectPending, fetchRequests, filterVars,
                   admins, userVars, assistantVars, paymentVars, normVars>>

\* localforage.getItem("authToken") settles: a rejection lands in the catch block
handleDeleteAdminToken(req, outcome) ==
    /\ view = "admins"
    /\ BagIn(req, deleteRequests) /\ req.stage = "getItem"
    /\ IF outcome = "rejected"
       THEN /\ toasts' = << "Failed to delete admin" >>
            /\ deleteRequests' = deleteRequests (-) SetToBag({req})
            /\ deletingId' = NoId
       ELSE IF ~authToken
       THEN /\ toasts' = << "Authentication required" >>
            /\ deleteRequests' = deleteRequests (-) SetToBag({req})
            /\ deletingId' = NoId
       ELSE /\ toasts' = << >>
            /\ deleteRequests' = (deleteRequests (-) SetToBag({req}))
                                     (+) SetToBag({[req EXCEPT !.stage = "post"]})
            /\ UNCHANGED deletingId
    /\ UNCHANGED <<envVars, loading, effectPending, fetchRequests, filterVars,
                   admins, userVars, assistantVars, paymentVars, normVars>>

handleDeleteAdminResponded(req, outcome) ==
    /\ view = "admins"
    /\ BagIn(req, deleteRequests) /\ req.stage = "post"
    /\ deleteRequests' = deleteRequests (-) SetToBag({req})
    /\ IF DeleteSucceeded(outcome)
       THEN /\ toasts' = << "Admin deleted successfully" >>
            /\ admins' = WithoutId(req.admins, req.id)
       ELSE /\ toasts' = << IF outcome = "httpError" THEN ServerMessage
                                                    ELSE "Failed to delete admin" >>
            /\ UNCHANGED admins
    /\ deletingId' = NoId
    /\ UNCHANGED <<envVars, loading, effectPending, fetchRequests, filterVars,
                   userVars, assistantVars, paymentVars, normVars>>

(***************************************************************************)
(* Payments: the detail modal and verification.  The modal is rendered     *)
(* from selectedPayment, the record object taken from the list when it was *)
(* opened; it offers Approve and Reject while that record can be verified, *)
(* and disables both while verifyingId is that record's identifier; the   *)
(* Reject control is disabled as well while the note is empty or blank, so *)
(* a reject reaches the handler only with a note.                          *)
(***************************************************************************)
Shown(list, x) == \E k \in DOMAIN list : list[k] = x

\* a row's View control
setSelectedPayment(payment) ==
    /\ view = "payments" /\ Interactive
    /\ Shown(filteredPayments, payment)
    /\ selectedPayment' = payment
    /\ toasts' = << >>
    /\ UNCHANGED <<envVars, loading, effectPending, fetchRequests, filterVars,
                   adminVars, userVars, assistantVars, payments, filteredPayments,
                   verifyingId, verificationNotes, verifyRequests, normVars>>

\* a row's Verify control, rendered for a payment that can be verified
openVerification(payment) ==
    /\ view = "payments" /\ Interactive
    /\ Shown(filteredPayments, payment)
    /\ canVerify(payment)
    /\ selectedPayment' = payment
    /\ verificationNotes' = ""
    /\ toasts' = << >>
    /\ UNCHANGED <<envVars, loading, effectPending, fetchRequests, filterVars,
                   adminVars, userVars, assistantVars, payments, filteredPayments,
                   verifyingId, verifyRequests, normVars>>

\* the modal's close control
closeDetail ==
    /\ view = "payments" /\ Interactive
    /\ selectedPayment # NoRecord
    /\ selectedPayment' = NoRecord
    /\ toasts' = << >>
    /\ UNCHANGED <<envVars, loading, effectPending, fetchRequests, filterVars,
                   adminVars, userVars, assistantVars, payments, filteredPayments,
                   verifyingId, verificationNotes, verifyRequests, normVars>>

\* the handler's precondition: a rejection without a reason is refused
ReasonMissing(notes, status) == trim(notes) = "" /\ status = "failed"

\* the POST returned and its body says success
VerifySucceeded(outcome) == outcome = "success"

\* the disabled attribute of the modal's Approve and Reject controls
ApproveDisabled(payment) == verifyingId = payment._id
RejectDisabled(payment) ==
    verifyingId = payment._id \/ trim(verificationNotes) = ""

\* the modal's Approve ("completed") and Reject ("failed") controls
handleVerifyPayment(paymentId, status) ==
    /\ view = "payments" /\ Interactive
    /\ selectedPayment # NoRecord
    /\ canVerify(selectedPayment)
    /\ paymentId = selectedPayment._id
    /\ IF status = "completed" THEN ~ApproveDisabled(selectedPayment)
                              ELSE ~RejectDisabled(selectedPayment)
    /\ IF ReasonMissing(verificationNotes, status)
       THEN /\ toasts' = << "Please provide a reason for rejection" >>
            /\ UNCHANGED <<verifyingId, verifyRequests>>
       ELSE /\ BagCardinality(verifyRequests) < MaxInFlight
            /\ toasts' = << >>
            /\ verifyingId' = paymentId
            /\ verifyRequests' = verifyRequests (+) SetToBag(
                   {[paymentId |-> paymentId, status |-> status]})
    /\ UNCHANGED <<envVars, loading, effectPending, fetchRequests, filterVars,
                   adminVars, userVars, assistantVars, payments, filteredPayments,
                   selectedPayment, verificationNotes, normVars>>

\* a variant whose finally block closes the modal as well
handleVerifyPaymentResponded_ClosesModal(req, outcome) ==
    /\ view = "payments" /\ ~effectPending
    /\ BagIn(req, verifyRequests)
    /\ verifyRequests' = verifyRequests (-) SetToBag({req})
    /\ IF VerifySucceeded(outcome)
       THEN /\ fetchRequests < MaxInFlight
            /\ toasts' = << IF req.status = "completed"
                            THEN "Payment verified successfully"
                            ELSE "Payment rejected successfully" >>
            /\ StartFetch
            /\ verificationNotes' = ""
       ELSE /\ toasts' = << IF outcome = "successFalse" THEN "Verification failed"
                            ELSE IF outcome \in {"successFalseMessage", "httpError"}
                            THEN ServerMessage
                            ELSE "Failed to verify payment" >>
            /\ UNCHANGED <<loading, fetchRequests, verificationNotes>>
    /\ selectedPayment' = NoRecord
    /\ verifyingId' = NoId
    /\ UNCHANGED <<envVars, effectPending, filterVars, adminVars, userVars,
                   assistantVars, payments, filteredPayments, normVars>>

handleVerifyPaymentResponded(req, outcome) ==
    /\ view = "payments" /\ ~effectPending
    /\ BagIn(req, verifyRequests)
    /\ verifyRequests' = verifyRequests (-) SetToBag({req})
    /\ IF VerifySucceeded(outcome)
       THEN /\ fetchRequests < MaxInFlight
            /\ toasts' = << IF req.status = "completed"
                            THEN "Payment verified successfully"
                            ELSE "Payment rejected successfully" >>
            /\ StartFetch
            /\ selectedPayment' = NoRecord
            /\ verificationNotes' = ""
       ELSE /\ toasts' = << IF outcome = "successFalse" THEN "Verification failed"
                            ELSE IF outcome \in {"successFalseMessage", "httpError"}
                            THEN ServerMessage
                            ELSE "Failed to verify payment" >>
            /\ UNCHANGED <<loading, fetchRequests, selectedPayment,
                           verificationNotes>>
    /\ verifyingId' = NoId
    /\ UNCHANGED <<envVars, effectPending, filterVars, adminVars, userVars,
                   assistantVars, payments, filteredPayments, normVars>>

(***************************************************************************)
(* The layout around the views: its Logout control removes the stored      *)
(* token and, once it is removed, leaves for the login page; its tabs      *)
(* replace the view by another.                                            *)
(***************************************************************************)
handleLogout ==
    /\ LayoutShown /\ ~effectPending
    /\ logoutRequests < MaxLogouts
    /\ logoutRequests' = logoutRequests + 1
    /\ toasts' = << >>
    /\ UNCHANGED <<view, navigatedTo, authToken, abandoned, loading, effectPending,
                   fetchRequests, filterVars, adminVars, userVars, assistantVars,
                   paymentVars, normVars>>

\* localforage.removeItem("authToken") settles
handleLogoutSettled(outcome) ==
    /\ ~effectPending
    /\ logoutRequests > 0
    /\ logoutRequests' = logoutRequests - 1
    /\ IF outcome = "resolved"
       THEN /\ authToken' = FALSE
            /\ toasts' = << "You have been logged out." >>
            /\ navigatedTo' = "/"
            /\ abandoned' = abandoned (+)
                   Leaving(fetchRequests, deleteRequests, verifyRequests)
            /\ ViewDiscarded
            /\ UNCHANGED <<view, normVars>>
       ELSE /\ toasts' = << "Logout error. Please try clearing your browser storage." >>
            /\ UNCHANGED <<view, navigatedTo, authToken, abandoned, loading,
                           effectPending, fetchRequests, filterVars, adminVars,
                           userVars, assistantVars, paymentVars, normVars>>

Layout ==
    \/ handleLogout
    \/ \E outcome \in StoreOutcomes : handleLogoutSettled(outcome)

\* the tabs of the layout
Tabs == {"users", "assistants", "payments", "profile"}

\* the path of a tab
TabPath(tab) == "/admin/" \o (IF tab = "assistants" THEN "assistant" ELSE tab)

\* a tab's NavLink: the route's element replaces the view
selectTab(tab) ==
    /\ LayoutShown /\ ~effectPending
    /\ IF Mounted THEN view # tab ELSE navigatedTo # TabPath(tab)
    /\ BagCardinality(abandoned)
           + BagCardinality(Leaving(fetchRequests, deleteRequests, verifyRequests))
           <= MaxAbandoned
    /\ abandoned' = abandoned (+)
           Leaving(fetchRequests, deleteRequests, verifyRequests)
    /\ toasts' = << >>
    /\ IF tab = "profile"
       THEN /\ navigatedTo' = TabPath(tab)
            /\ ViewDiscarded
            /\ UNCHANGED view
       ELSE /\ navigatedTo' = ""
            /\ view' = tab
            /\ ViewMounted
    /\ UNCHANGED <<authToken, logoutRequests, normVars>>

(***************************************************************************)
(* The calls of a view that has left, answered.                            *)
(***************************************************************************)
NoneFoundToast(kind) == "No " \o kind \o " found"

FetchErrorToasts(kind, status) ==
    CASE kind = "admins" -> << "Failed to load admin data." >>
      [] kind = "users" -> << "Failed to load user data." >> \o UsersErrorToast(status)
      [] kind = "assistants" -> AssistantsErrorToast(status)
      [] kind = "payments" -> << "Failed to load payment data." >>

\* where a view's fetch navigates to on a 401, "" where it does not
UnauthorizedTarget(kind) ==
    CASE kind = "admins" -> "/login"
      [] kind = "payments" -> "/"
      [] OTHER -> ""

AbandonedOnly ==
    UNCHANGED <<view, navigatedTo, authToken, logoutRequests, loading, effectPending,
                fetchRequests, filterVars, adminVars, userVars, assistantVars,
                paymentVars, normVars>>

abandonedFetchResolved(req, shape, items) ==
    /\ ~effectPending
    /\ BagIn(req, abandoned) /\ req.call = "fetch"
    /\ abandoned' = abandoned (-) SetToBag({req})
    /\ toasts' = IF Len(Normalize(req.of, Envelope(shape, req.of, items))) = 0
                 THEN << NoneFoundToast(req.of) >> ELSE << >>
    /\ AbandonedOnly

abandonedFetchRejected(req, status) ==
    /\ ~effectPending
    /\ BagIn(req, abandoned) /\ req.call = "fetch"
    /\ toasts' = FetchErrorToasts(req.of, status)
    /\ IF status = 401 /\ UnauthorizedTarget(req.of) # ""
       THEN /\ navigatedTo' = UnauthorizedTarget(req.of)
            /\ abandoned' = (abandoned (-) SetToBag({req})) (+)
                   Leaving(fetchRequests, deleteRequests, verifyRequests)
            /\ ViewDiscarded
            /\ UNCHANGED <<view, authToken, logoutRequests, normVars>>
       ELSE /\ abandoned' = abandoned (-) SetToBag({req})
            /\ AbandonedOnly

abandonedDeleteToken(req, outcome) ==
    /\ BagIn(req, abandoned) /\ req.call = "delete" /\ req.stage = "getItem"
    /\ IF outcome = "rejected"
       THEN /\ toasts' = << "Failed to delete admin" >>
            /\ abandoned' = abandoned (-) SetToBag({req})
       ELSE IF ~authToken
       THEN /\ toasts' = << "Authentication required" >>
            /\ abandoned' = abandoned (-) SetToBag({req})
       ELSE /\ toasts' = << >>
            /\ abandoned' = (abandoned (-) SetToBag({req}))
                                (+) SetToBag({[req EXCEPT !.stage = "post"]})
    /\ AbandonedOnly

abandonedDeleteResponded(req, outcome) ==
    /\ BagIn(req, abandoned) /\ req.call = "delete" /\ req.stage = "post"
    /\ abandoned' = abandoned (-) SetToBag({req})
    /\ toasts' = << IF DeleteSucceeded(outcome) THEN "Admin deleted successfully"
                    ELSE IF outcome = "httpError" THEN ServerMessage
                    ELSE "Failed to delete admin" >>
    /\ AbandonedOnly

\* after a success the handler still calls fetchPayments
abandonedVerifyResponded(req, outcome) ==
    /\ ~effectPending
    /\ BagIn(req, abandoned) /\ req.call = "verify"
    /\ IF VerifySucceeded(outcome)
       THEN /\ toasts' = << IF req.status = "completed"
                            THEN "Payment verified successfully"
                            ELSE "Payment rejected successfully" >>
            /\ abandoned' = (abandoned (-) SetToBag({req}))
                                (+) SetToBag({Abandoned("fetch", req.of, "", "")})
       ELSE /\ toasts' = << IF outcome = "successFalse" THEN "Verification failed"
                            ELSE IF outcome \in {"successFalseMessage", "httpError"}
                            THEN ServerMessage
                            ELSE "Failed to verify payment" >>
            /\ abandoned' = abandoned (-) SetToBag({req})
    /\ AbandonedOnly

AbandonedFetchAnswered ==
    \/ \E req \in BagToSet(abandoned), shape \in BackendShapes :
          \E items \in Lists(req.of) : abandonedFetchResolved(req, shape, items)
    \/ \E req \in BagToSet(abandoned), status \in ErrorStatuses :
          abandonedFetchRejected(req, status)

AbandonedDeleteAnswered ==
    \/ \E req \in BagToSet(abandoned), outcome \in StoreOutcomes :
          abandonedDeleteToken(req, outcome)
    \/ \E req \in BagToSet(abandoned), outcome \in WriteOutcomes :
          abandonedDeleteResponded(req, outcome)

AbandonedVerifyAnswered ==
    \E req \in BagToSet(abandoned), outcome \in WriteOutcomes :
        abandonedVerifyResponded(req, outcome)

(***************************************************************************)
(* The views.                                                              *)
(***************************************************************************)
NextAdmins ==
    \/ fetchAdmins
    \/ \E shape \in BackendShapes, items \in AdminLists :
          fetchAdminsResolved(shape, items)
    \/ \E status \in ErrorStatuses :
          fetchAdminsRejected(status)
    \/ \E term \in SearchTerms : setSearchTerm(term)
    \/ \E adminId \in AdminIds, confirmed \in BOOLEAN :
          handleDeleteAdmin(adminId, confirmed)
    \/ \E req \in BagToSet(deleteRequests), outcome \in StoreOutcomes :
          handleDeleteAdminToken(req, outcome)
    \/ \E req \in BagToSet(deleteRequests), outcome \in WriteOutcomes :
          handleDeleteAdminResponded(req, outcome)
    \/ Layout
    \/ AbandonedFetchAnswered
    \/ AbandonedDeleteAnswered

NextUsers ==
    \/ fetchUsers
    \/ \E shape \in BackendShapes, items \in UserLists :
          fetchUsersResolved(shape, items)
    \/ \E status \in ErrorStatuses :
          fetchUsersRejected(status)
    \/ UsersApplyFilters
    \/ \E term \in SearchTerms : setSearchTerm(term)
    \/ \E value \in PlanFilters : setPlanFilter(value)
    \/ \E value \in DateFilters : setDateFilter(value)
    \/ previousPage
    \/ nextPage
    \/ loadMore
    \/ Layout
    \/ AbandonedFetchAnswered

NextAssistants ==
    \/ fetchAssistants
    \/ \E shape \in BackendShapes, items \in AssistantLists :
          fetchAssistantsResolved(shape, items)
    \/ \E status \in ErrorStatuses :
          fetchAssistantsRejected(status)
    \/ AssistantsApplyFilters
    \/ \E term \in SearchTerms : setSearchTerm(term)
    \/ \E value \in AssistantStatusFilters : setStatusFilter(value)
    \/ \E value \in DateFilters : setDateFilter(value)
    \/ previousPage
    \/ nextPage
    \/ loadMore
    \/ Layout
    \/ AbandonedFetchAnswered

NextPayments ==
    \/ fetchPayments
    \/ \E shape \in BackendShapes, items \in PaymentLists :
          fetchPaymentsResolved(shape, items)
    \/ \E status \in ErrorStatuses :
          fetchPaymentsRejected(status)
    \/ PaymentsApplyFilters
    \/ \E term \in SearchTerms : setSearchTerm(term)
    \/ \E value \in PaymentStatusFilters : setStatusFilter(value)
    \/ \E value \in DateFilters : setDateFilter(value)
    \/ \E payment \in RecordsOf("payments") : setSelectedPayment(payment)
    \/ \E payment \in RecordsOf("payments") : openVerification(payment)
    \/ closeDetail
    \/ \E paymentId \in Ids, status \in {"completed", "failed"} :
          handleVerifyPayment(paymentId, status)
    \/ \E req \in BagToSet(verifyRequests), outcome \in WriteOutcomes :
          handleVerifyPaymentResponded(req, outcome)
    \/ Layout
    \/ AbandonedFetchAnswered
    \/ AbandonedVerifyAnswered

\* the views under the layout, whose tabs lead from one to another
Next ==
    \/ NextAdmins \/ NextUsers \/ NextAssistants \/ NextPayments
    \/ \E tab \in Tabs : selectTab(tab)

Spec == Init /\ [][Next]_vars

(***************************************************************************)
(* The views as React schedules them: a pending filter effect is run.      *)
(* Nothing makes a call end: axios is used without a timeout and without   *)
(* cancellation, so a request the backend never answers stays in flight.   *)
(***************************************************************************)
\* React runs a pending filter effect after the render
EffectRun == UsersApplyFilters \/ AssistantsApplyFilters \/ PaymentsApplyFilters

SpecLive == Init /\ [][Next]_vars /\ WF_vars(EffectRun)

InitAdmins == view = "admins" /\ ViewInit /\ NormIdle
SpecAdmins == InitAdmins /\ [][NextAdmins]_vars

InitPayments == view = "payments" /\ ViewInit /\ NormIdle
SpecPayments == InitPayments /\ [][NextPayments]_vars

(***************************************************************************)
(* Browsing: the users, assistants and payments views.                     *)
(***************************************************************************)
NextBrowse == NextUsers \/ NextAssistants \/ NextPayments

InitBrowse == view \in {"users", "assistants", "payments"} /\ ViewInit /\ NormIdle
SpecBrowse == InitBrowse /\ [][NextBrowse]_vars

(***************************************************************************)
(* One run of a view's filter pipeline on a collection.  The collections   *)
(* hold records created around the boundaries of the date buckets.         *)
(***************************************************************************)
WithCreatedAt(r, t) == ("createdAt" :> t) @@ r
WithoutCreatedAt(r) == [f \in DOMAIN r \ {"createdAt"} |-> r[f]]

\* the instants at which record i may have been created
ProbeTimes(i) ==
    LET M == Midnight(Clock)
    IN  CASE Variant(i) = 1 -> {M, M - 1}
          [] Variant(i) = 2 ->
                {DaysBefore(M, 1), DaysBefore(M, 1) - 1, DaysBefore(M, 7)}
          [] OTHER ->
                {DaysBefore(M, 7) - 1, DaysBefore(M, 30), DaysBefore(M, 30) - 1}

\* the status record i of the payments has
ProbeStatus(i) ==
    CASE Variant(i) = 1 -> "absent"
      [] Variant(i) = 2 -> "completed"
      [] OTHER -> "processing"

ProbeBase(kind, i) ==
    CASE kind = "admins" -> AdminOf(i)
      [] kind = "users" -> UserOf(i)
      [] kind = "assistants" -> AssistantOf(i)
      [] kind = "payments" -> PaymentOf(i, ProbeStatus(i))

ProbesAt(kind, i) ==
    IF kind = "admins" THEN {AdminOf(i)}
    ELSE {WithCreatedAt(ProbeBase(kind, i), t) : t \in ProbeTimes(i)}
         \cup (IF Variant(i) = 1 THEN {WithoutCreatedAt(ProbeBase(kind, i))} ELSE {})

\* the collections of at most n records numbered from i on, in store order
RECURSIVE ProbeListsFrom(_, _, _)
ProbeListsFrom(kind, i, n) ==
    IF i > NumProbes \/ n = 0 THEN {<< >>}
    ELSE ProbeListsFrom(kind, i + 1, n)
         \cup {<<r>> \o l : r \in ProbesAt(kind, i),
                            l \in ProbeListsFrom(kind, i + 1, n - 1)}

ProbeLists(kind) == ProbeListsFrom(kind, 1, MaxProbeLen)

ProbeTerms == {"", "ali", "ALI", "n/a"}

\* the list a view derives from its records and filters
Derive(kind, records, term, plan, status, date) ==
    CASE kind = "admins" -> filteredAdmins(records, term)
      [] kind = "users" -> UsersFilterEffect(records, term, plan, date, Clock)
      [] kind = "assistants" ->
            AssistantsFilterEffect(records, term, status, date, Clock)
      [] kind = "payments" -> PaymentsFilterEffect(records, term, status, date, Clock)

InitDerive ==
    /\ view \in Views
    /\ navigatedTo = "" /\ authToken = TRUE /\ logoutRequests = 0
    /\ abandoned = EmptyBag
    /\ toasts = << >>
    /\ loading = FALSE /\ effectPending = FALSE /\ fetchRequests = 0
    /\ currentPage = 1
    /\ searchTerm \in ProbeTerms
    /\ planFilter \in (IF view = "users" THEN PlanFilters ELSE {"all"})
    /\ statusFilter \in (CASE view = "assistants" -> AssistantStatusFilters
                           [] view = "payments" -> PaymentStatusFilters
                           [] OTHER -> {"all"})
    /\ dateFilter \in (IF view = "admins" THEN {"all"} ELSE DateFilters)
    /\ admins = << >> /\ deletingId = NoId /\ deleteRequests = EmptyBag
    /\ users = << >> /\ filteredUsers = << >>
    /\ assistants = << >> /\ filteredAssistants = << >>
    /\ payments = << >> /\ filteredPayments = << >>
    /\ verifyingId = NoId /\ selectedPayment = NoRecord /\ verificationNotes = ""
    /\ verifyRequests = EmptyBag
    /\ normKind = view /\ normShape = "bare"
    /\ normItems \in ProbeLists(view)
    /\ normDone = FALSE /\ normResult = << >>

RunDerive ==
    /\ ~normDone
    /\ normResult' = Derive(normKind, normItems, searchTerm, planFilter,
                            statusFilter, dateFilter)
    /\ normDone' = TRUE
    /\ UNCHANGED <<envVars, toasts, loading, effectPending, fetchRequests,
                   filterVars, adminVars, userVars, assistantVars, paymentVars,
                   normKind, normShape, normItems>>

SpecDerive == InitDerive /\ [][RunDerive]_vars

(***************************************************************************)
(* One evaluation of a view's accessors on a record that lacks some of its *)
(* optional properties.                                                    *)
(***************************************************************************)
\* a record with every property its view reads
FullRecord(kind) ==
    CASE kind = "admins" ->
            [_id |-> Id(1), firstname |-> "Alice", lastname |-> "Stone",
             email |-> "alice@jobbinex.com", phonenumber |-> "0711",
             role |-> "Owner", createdAt |-> Clock - 3600]
      [] kind = "users" ->
            [_id |-> Id(1), firstname |-> "Alice", lastname |-> "Stone",
             email |-> "alice@mail.com", phonenumber |-> "0711",
             planName |-> "Premium", planExpiresAt |-> Clock + SecondsPerDay,
             assistant |-> "id9", jobs |-> 2, createdAt |-> Clock - 3600,
             preferredIndustries |-> "Energy", preferredRoles |-> "Analyst",
             preferredLocations |-> "Leeds"]
      [] kind = "assistants" ->
            [_id |-> Id(1), firstname |-> "Alice", lastname |-> "Stone",
             email |-> "alice@jobbinex.com", status |-> "online",
             clients |-> 3, jobs |-> 1, messages |-> 4,
             createdAt |-> Clock - 3600]
      [] kind = "payments" ->
            [_id |-> Id(1), userFirstName |-> "Alice", userLastName |-> "Stone",
             userEmail |-> "alice@mail.com", userPhone |-> "0711",
             planName |-> "Premium", planPrice |-> 5900, amount |-> 4900,
             currency |-> "USD", status |-> "completed",
             stripeSessionId |-> "cs_77", stripePaymentIntentId |-> "pi_42",
             createdAt |-> Clock - 3600]

OptionalFields(kind) == DOMAIN FullRecord(kind) \ {"_id"}

Restrict(r, fields) == [f \in fields |-> r[f]]

\* the record of a kind with exactly the given optional properties
Partial(kind, present) == Restrict(FullRecord(kind), present \cup {"_id"})

\* what the accessors of a view return for a record: texts and numbers
Accessors(kind, x) ==
    CASE kind = "users" ->
            [texts |-> [name |-> getSafeUserName(x), email |-> getSafeEmail(x),
                        phone |-> getSafePhone(x), planName |-> getSafePlanName(x),
                        planExpiry |-> getPlanExpiry(x),
                        industries |-> getSafeIndustries(x),
                        roles |-> getSafeRoles(x),
                        locations |-> getSafeLocations(x),
                        hasAssistant |-> getHasAssistant(x)],
             numbers |-> [jobCount |-> getJobCount(x),
                          createdAt |-> getSafeCreatedAt(x, Clock)]]
      [] kind = "assistants" ->
            [texts |-> [name |-> getSafeAssistantName(x), email |-> getSafeEmail(x),
                        status |-> getSafeAssistantStatus(x)],
             numbers |-> [clientCount |-> getClientCount(x),
                          jobCount |-> getJobCount(x),
                          messageCount |-> getMessageCount(x),
                          createdAt |-> getSafeCreatedAt(x, Clock)]]
      [] kind = "payments" ->
            [texts |-> [name |-> getSafePaymentUserName(x),
                        email |-> getSafePaymentEmail(x),
                        phone |-> getSafePaymentPhone(x),
                        planName |-> getSafePaymentPlanName(x),
                        currency |-> getSafeCurrency(x),
                        status |-> getSafeStatus(x),
                        transactionId |-> getTransactionId(x)],
             numbers |-> [amount |-> getSafeAmount(x),
                          createdAt |-> getSafeCreatedAt(x, Clock)]]

InitAccessors ==
    /\ view \in {"users", "assistants", "payments"}
    /\ navigatedTo = "" /\ authToken = TRUE /\ logoutRequests = 0
    /\ abandoned = EmptyBag
    /\ toasts = << >>
    /\ loading = FALSE /\ effectPending = FALSE /\ fetchRequests = 0
    /\ currentPage = 1
    /\ searchTerm = "" /\ planFilter = "all" /\ statusFilter = "all"
    /\ dateFilter = "all"
    /\ admins = << >> /\ deletingId = NoId /\ deleteRequests = EmptyBag
    /\ users = << >> /\ filteredUsers = << >>
    /\ assistants = << >> /\ filteredAssistants = << >>
    /\ payments = << >> /\ filteredPayments = << >>
    /\ verifyingId = NoId /\ selectedPayment = NoRecord /\ verificationNotes = ""
    /\ verifyRequests = EmptyBag
    /\ normKind = view /\ normShape = "bare"
    /\ normItems \in {<<Partial(view, present)>> :
                          present \in SUBSET OptionalFields(view)}
    /\ normDone = FALSE /\ normResult = << >>

RunAccessors ==
    /\ ~normDone
    /\ normResult' = <<Accessors(normKind, normItems[1])>>
    /\ normDone' = TRUE
    /\ UNCHANGED <<envVars, toasts, loading, effectPending, fetchRequests,
                   filterVars, adminVars, userVars, assistantVars, paymentVars,
                   normKind, normShape, normItems>>

SpecAccessors == InitAccessors /\ [][RunAccessors]_vars

(***************************************************************************)
(* One render of a view whose collection is a single record that lacks     *)
(* some of its properties, after the filter effect has run.  Reading a     *)
(* property of undefined throws a TypeError, which ends the render.        *)
(***************************************************************************)
TypeError == <<[error |-> "TypeError"]>>

\* admin.email.toLowerCase() is reached for an admin without an email: the
\* name did not contain the term, so || went on to the email
filteredAdminsThrows(list, term) ==
    \E i \in 1..Len(list) :
        /\ "email" \notin DOMAIN list[i]
        /\ ~includes(toLowerCase(Interpolate(list[i], "firstname") \o " "
                                  \o Interpolate(list[i], "lastname")),
                     toLowerCase(term))

\* the list a render shows, or the error that ended it
Render(kind, records, term, plan, status, date) ==
    IF kind = "admins" /\ filteredAdminsThrows(records, term) THEN TypeError
    ELSE Derive(kind, records, term, plan, status, date)

InitPartial ==
    /\ view \in Views
    /\ navigatedTo = "" /\ authToken = TRUE /\ logoutRequests = 0
    /\ abandoned = EmptyBag
    /\ toasts = << >>
    /\ loading = FALSE /\ effectPending = FALSE /\ fetchRequests = 0
    /\ currentPage = 1
    /\ searchTerm \in SearchTerms \cup {"n/a"}
    /\ planFilter \in (IF view = "users" THEN {"all", "premium"} ELSE {"all"})
    /\ statusFilter \in (CASE view = "assistants" -> {"all", "offline"}
                           [] view = "payments" -> {"all", "pending"}
                           [] OTHER -> {"all"})
    /\ dateFilter \in (IF view = "admins" THEN {"all"} ELSE {"all", "today"})
    /\ normKind = view /\ normShape = "bare"
    /\ normItems \in {<<Partial(view, present)>> :
                          present \in SUBSET OptionalFields(view)}
    /\ admins = (IF view = "admins" THEN normItems ELSE << >>)
    /\ users = (IF view = "users" THEN normItems ELSE << >>)
    /\ assistants = (IF view = "assistants" THEN normItems ELSE << >>)
    /\ payments = (IF view = "payments" THEN normItems ELSE << >>)
    /\ filteredUsers =
           UsersFilterEffect(users, searchTerm, planFilter, dateFilter, Clock)
    /\ filteredAssistants =
           AssistantsFilterEffect(assistants, searchTerm, statusFilter, dateFilter,
                                  Clock)
    /\ filteredPayments =
           PaymentsFilterEffect(payments, searchTerm, statusFilter, dateFilter, Clock)
    /\ deletingId = NoId /\ deleteRequests = EmptyBag
    /\ verifyingId = NoId /\ selectedPayment = NoRecord /\ verificationNotes = ""
    /\ verifyRequests = EmptyBag
    /\ normDone = FALSE /\ normResult = << >>

RunPartial ==
    /\ ~normDone
    /\ normResult' = Render(normKind, normItems, searchTerm, planFilter,
                            statusFilter, dateFilter)
    /\ normDone' = TRUE
    /\ UNCHANGED <<envVars, toasts, loading, effectPending, fetchRequests,
                   filterVars, adminVars, userVars, assistantVars, paymentVars,
                   normKind, normShape, normItems>>

SpecPartial == InitPartial /\ [][RunPartial]_vars

(***************************************************************************)
(* One run of a view's normaliser on an envelope.                          *)
(***************************************************************************)
InitNormalize ==
    /\ view = "admins" /\ ViewInit /\ authToken
    /\ normKind \in Views
    /\ normShape \in Shapes
    /\ normItems \in Lists(normKind)
    /\ normDone = FALSE
    /\ normResult = << >>

RunNormalize ==
    /\ ~normDone
    /\ normResult' = Normalize(normKind, Envelope(normShape, normKind, normItems))
    /\ normDone' = TRUE
    /\ UNCHANGED <<envVars, toasts, loading, effectPending, fetchRequests,
                   filterVars, adminVars, userVars, assistantVars, paymentVars,
                   normKind, normShape, normItems>>

SpecNormalize == InitNormalize /\ [][RunNormalize]_vars

(***************************************************************************)
(* Properties.                                                             *)
(***************************************************************************)
FourShapes == {"bare", "named", "generic", "nested"}

\* C1 as stated: for every record kind the normaliser returns the records of
\* a bare sequence, of a sequence in the kind-named property, of a sequence in
\* the data property and of a sequence in the kind-named property of the data
\* object, and an empty sequence for every other response.
C1_EveryKindFourShapes ==
    normDone =>
        normResult = IF normShape \in FourShapes THEN normItems ELSE << >>

\* a delete call whose POST was answered without an error ends
DeleteSuccessStep(req) ==
    /\ BagIn(req, deleteRequests) /\ req.stage = "post"
    /\ deleteRequests' = deleteRequests (-) SetToBag({req})
    /\ toasts' = << "Admin deleted successfully" >>

\* l without its k-th element
RemoveAt(l, k) == SubSeq(l, 1, k - 1) \o SubSeq(l, k + 1, Len(l))

\* C2: when a confirmed delete of admin X ends successfully, admins is the
\* collection the delete was started from with the one record X taken out,
\* the other records in their order, and no collection fetch is started.
C2_DeleteRemovesOne ==
    [][\A req \in BagToSet(deleteRequests) :
          DeleteSuccessStep(req) =>
              /\ \E k \in DOMAIN req.admins :
                     /\ req.admins[k]._id = req.id
                     /\ admins' = RemoveAt(req.admins, k)
              /\ Len(admins') = Len(req.admins) - 1
              /\ \A k \in DOMAIN admins' : admins'[k]._id # req.id
              /\ fetchRequests' = fetchRequests
              /\ loading' = loading]_vars

\* a delete has succeeded and left the two other admins
C2_Witness ==
    /\ toasts = << "Admin deleted successfully" >>
    /\ Len(admins) = 2
    /\ fetchRequests = 0 /\ ~loading

\* a delete call's POST failed
DeleteFailureStep ==
    \E req \in BagToSet(deleteRequests) :
        /\ req.stage = "post"
        /\ deleteRequests' = deleteRequests (-) SetToBag({req})
        /\ toasts' \in {<< ServerMessage >>, << "Failed to delete admin" >>}

\* a verify call's POST failed
VerifyFailureStep ==
    \E req \in BagToSet(verifyRequests) :
        /\ verifyRequests' = verifyRequests (-) SetToBag({req})
        /\ toasts' \in {<< ServerMessage >>, << "Failed to verify payment" >>}

\* C3: a delete or verify request that fails on the network or with an HTTP
\* error status leaves the collection as it was, and for a verify also the
\* selected payment and the note; no collection fetch is started.
C3_FailureChangesNothing ==
    [][/\ DeleteFailureStep =>
              /\ admins' = admins
              /\ fetchRequests' = fetchRequests /\ loading' = loading
       /\ VerifyFailureStep =>
              /\ payments' = payments /\ filteredPayments' = filteredPayments
              /\ selectedPayment' = selectedPayment
              /\ verificationNotes' = verificationNotes
              /\ fetchRequests' = fetchRequests /\ loading' = loading]_vars

\* a verify has failed with a payment selected and payments loaded
C3_Witness ==
    /\ toasts = << "Failed to verify payment" >>
    /\ selectedPayment # NoRecord
    /\ Len(payments) > 0

\* a verify POST for payment id with the given status is sent
VerifySent(id, status) ==
    CopiesIn([paymentId |-> id, status |-> status], verifyRequests')
        > CopiesIn([paymentId |-> id, status |-> status], verifyRequests)

\* a delete POST is sent
DeleteSent ==
    \E req \in BagToSet(deleteRequests') :
        /\ req.stage = "post"
        /\ CopiesIn(req, deleteRequests') > CopiesIn(req, deleteRequests)

\* C4 as stated: while no token is stored, no delete, approve or reject
\* request is sent, and the steps of these actions leave the collections as
\* they are.
C4_NoTokenNoRequest ==
    [][~authToken =>
          /\ ~DeleteSent
          /\ \A id \in Ids, status \in {"completed", "failed"} :
                 ~VerifySent(id, status)
          /\ (deleteRequests' # deleteRequests \/ verifyRequests' # verifyRequests)
                 => admins' = admins /\ payments' = payments]_vars

\* the modal offers the verification of the selected payment, nothing is being
\* verified and the note is empty or blank
RejectWithoutReason ==
    /\ view = "payments" /\ Interactive
    /\ selectedPayment # NoRecord /\ canVerify(selectedPayment)
    /\ verifyingId # selectedPayment._id
    /\ trim(verificationNotes) = ""

\* C5 as stated: a reject attempted while the note is empty or blank is
\* answered: it emits the message asking for a reason, sends no request and
\* leaves verifyingId, the selected payment and the payments as they were.
C5_RejectNeedsReason ==
    RejectWithoutReason =>
        ENABLED (/\ handleVerifyPayment(selectedPayment._id, "failed")
                 /\ toasts' = << "Please provide a reason for rejection" >>
                 /\ verifyRequests' = verifyRequests
                 /\ verifyingId' = verifyingId
                 /\ selectedPayment' = selectedPayment
                 /\ payments' = payments)

\* the view is on screen before and after the step
ViewStays == Mounted /\ Mounted' /\ view' = view

\* a verify call ends with the backend's success
VerifySuccessStep ==
    \E req \in BagToSet(verifyRequests) :
        /\ verifyRequests' = verifyRequests (-) SetToBag({req})
        /\ toasts' \in {<< "Payment verified successfully" >>,
                        << "Payment rejected successfully" >>}

\* C6: a successful verify starts a fetch of the payments and clears the
\* selected payment; it does not touch the payments, which change, while
\* the view is on screen, only when a fetch is answered.
C6_VerifyRefetches ==
    [][/\ VerifySuccessStep =>
              /\ fetchRequests' = fetchRequests + 1
              /\ loading'
              /\ selectedPayment' = NoRecord
              /\ payments' = payments /\ filteredPayments' = filteredPayments
       /\ (ViewStays /\ payments' # payments) =>
              fetchRequests' = fetchRequests - 1]_vars

\* a verify has succeeded: the fetch it started is in flight, the modal closed
C6_Witness ==
    /\ toasts = << "Payment verified successfully" >>
    /\ loading /\ fetchRequests >= 1
    /\ selectedPayment = NoRecord
    /\ Len(payments) > 0

\* C7 as stated: a verify request is sent only for a payment that the
\* payments hold with status pending or processing (or without a status).
C7_OnlyVerifiableSent ==
    [][\A id \in Ids, status \in {"completed", "failed"} :
          VerifySent(id, status) =>
              \E k \in DOMAIN payments :
                  payments[k]._id = id /\ canVerify(payments[k])]_vars

\* a collection fetch is answered with the given error status
FetchRejected(status) ==
    \/ fetchAdminsRejected(status)
    \/ fetchUsersRejected(status)
    \/ fetchAssistantsRejected(status)
    \/ fetchPaymentsRejected(status)

\* the view's collection and the list derived from it are empty after the step
CollectionEmptied ==
    CASE view = "admins" ->
            admins' = << >> /\ filteredAdmins(admins', searchTerm') = << >>
      [] view = "users" ->
            /\ users' = << >> /\ filteredUsers' = << >>
            /\ UsersFilterEffect(users', searchTerm', planFilter', dateFilter',
                                 Clock) = << >>
      [] view = "assistants" ->
            /\ assistants' = << >> /\ filteredAssistants' = << >>
            /\ AssistantsFilterEffect(assistants', searchTerm', statusFilter',
                                      dateFilter', Clock) = << >>
      [] view = "payments" ->
            /\ payments' = << >> /\ filteredPayments' = << >>
            /\ PaymentsFilterEffect(payments', searchTerm', statusFilter',
                                    dateFilter', Clock) = << >>

\* C8 as stated: in every view a fetch answered with status 401 navigates to
\* "/" and leaves the collection and the derived list empty.
C8_UnauthorizedGoesToLogin ==
    [][FetchRejected(401) => navigatedTo' = "/" /\ CollectionEmptied]_vars

\* C9: in every view a failed fetch leaves the collection and the derived
\* list empty and loading false.
C9_FailedFetchEmpties ==
    [][\A status \in ErrorStatuses :
          FetchRejected(status) => CollectionEmptied /\ ~loading']_vars

\* a refresh of the assistants, started after a search was typed into the
\* loaded view, has failed
C9_Witness ==
    /\ view = "assistants" /\ searchTerm # ""
    /\ toasts = << "Server error. Please try again later." >>
    /\ assistants = << >> /\ filteredAssistants = << >>
    /\ ~loading /\ fetchRequests = 0

\* the delete POSTs and the verify POSTs in flight for a record
DeletesFor(id) ==
    {req \in BagToSet(deleteRequests) : req.id = id /\ req.stage = "post"}
VerifiesFor(id) == {req \in BagToSet(verifyRequests) : req.paymentId = id}

\* C10 as stated: no record has two delete requests or two verify requests
\* in flight at once.
C10_OneInFlightPerRecord ==
    \A id \in AdminIds \cup Ids :
        /\ Cardinality(DeletesFor(id)) <= 1
        /\ \A req \in DeletesFor(id) : CopiesIn(req, deleteRequests) <= 1
        /\ Cardinality(VerifiesFor(id)) <= 1
        /\ \A req \in VerifiesFor(id) : CopiesIn(req, verifyRequests) <= 1

\* C11: while the view is on screen no response to a fetch of the payments
\* is cancelled or dropped: every fetch in flight ends in a step that applies
\* its outcome, and a response sets the payments to its reversed records
\* however many other fetches are in flight, so the response answered last
\* decides the payments.
C11_LastResponseWins ==
    [][(ViewStays /\ fetchRequests' < fetchRequests) =>
          /\ fetchRequests' = fetchRequests - 1
          /\ \/ \E shape \in BackendShapes, items \in PaymentLists :
                    fetchPaymentsResolved(shape, items)
             \/ \E status \in ErrorStatuses : fetchPaymentsRejected(status)
          /\ \A shape \in BackendShapes, items \in PaymentLists :
                 fetchPaymentsResolved(shape, items) =>
                     /\ payments' = Reverse(items)
                     /\ filteredPayments' = Reverse(items)]_vars

\* of two fetches of the payments in flight at once, one has been answered
\* and applied and the other is still in flight
C11_Witness ==
    /\ view = "payments" /\ Mounted
    /\ fetchRequests = 1 /\ ~loading
    /\ Len(payments) = NumPayments

\* a filter input of the mounted view changes
FiltersChanged ==
    \/ searchTerm' # searchTerm
    \/ planFilter' # planFilter
    \/ statusFilter' # statusFilter
    \/ dateFilter' # dateFilter

\* C12: in the users and the assistants view, while on screen, every change
\* of the search term, of the plan or status filter or of the date filter
\* makes the filter effect run before anything else, and the effect leaves
\* the current page at 1 whatever it was.
C12_FilterChangeResetsPage ==
    [][(view \in Paginated /\ ViewStays) =>
          /\ FiltersChanged => effectPending'
          /\ effectPending => currentPage' = 1 /\ ~effectPending']_vars

\* a filter was changed on the second page and the effect is about to run
C12_Witness ==
    /\ view \in Paginated
    /\ effectPending /\ currentPage = 2
    /\ (searchTerm # "" \/ planFilter # "all" \/ statusFilter # "all"
        \/ dateFilter # "all")

\* the derived list of the mounted view is the pipeline's result for the
\* current records and the current filters
DerivedIsCurrent ==
    CASE view = "admins" -> TRUE
      [] view = "users" ->
            filteredUsers
                = UsersFilterEffect(users, searchTerm, planFilter, dateFilter, Clock)
      [] view = "assistants" ->
            filteredAssistants
                = AssistantsFilterEffect(assistants, searchTerm, statusFilter,
                                         dateFilter, Clock)
      [] view = "payments" ->
            filteredPayments
                = PaymentsFilterEffect(payments, searchTerm, statusFilter,
                                       dateFilter, Clock)

RecordsChanged ==
    users' # users \/ assistants' # assistants \/ payments' # payments

\* C13: whenever no recomputation is pending the derived list is the
\* pipeline's result for the current records and filters, and every change
\* of the records or of a filter of the view on screen makes the
\* recomputation pending.
C13_DerivedFollows ==
    /\ [](~effectPending => DerivedIsCurrent)
    /\ [][(ViewStays /\ (FiltersChanged \/ RecordsChanged)) => effectPending']_vars

\* the users are shown with the plan filter applied: one of two is kept
C13_Witness ==
    /\ view = "users" /\ Mounted /\ ~effectPending
    /\ planFilter # "all"
    /\ Len(users) = 2 /\ Len(filteredUsers) = 1

(***************************************************************************)
(* The stages of the filter pipeline, one at a time.                       *)
(***************************************************************************)
\* the properties of a record the search of its view looks at
SearchFields(kind) ==
    CASE kind = "admins" -> {"firstname", "lastname", "email", "phonenumber", "role"}
      [] kind = "users" ->
            {"firstname", "lastname", "email", "phonenumber",
             "preferredIndustries", "preferredRoles", "preferredLocations"}
      [] kind = "assistants" -> {"firstname", "lastname", "email"}
      [] kind = "payments" ->
            {"userFirstName", "userLastName", "userEmail", "userPhone",
             "planName", "stripeSessionId", "stripePaymentIntentId", "_id"}

\* one of the record's search fields contains the term, ignoring case
FieldContains(kind, record, term) ==
    \E f \in SearchFields(kind) \cap DOMAIN record :
        includes(toLowerCase(record[f]), toLowerCase(term))

OnlySearch ==
    normDone /\ planFilter = "all" /\ statusFilter = "all" /\ dateFilter = "all"

\* C14: with only the search active, the derived list holds, in the
\* collection's order, exactly the records one of whose search fields
\* contains the term ignoring case; the empty term keeps every record.
C14_SearchByFields ==
    OnlySearch =>
        normResult = IF searchTerm = "" THEN normItems
                     ELSE SelectSeq(normItems, LAMBDA r :
                              FieldContains(normKind, r, searchTerm))

\* the plan or status a categorical filter compares, lower-cased
CategoryOf(kind, record) ==
    CASE kind = "users" -> toLowerCase(getSafePlanName(record))
      [] kind = "assistants" -> toLowerCase(getSafeAssistantStatus(record))
      [] kind = "payments" -> toLowerCase(getSafeStatus(record))
      [] OTHER -> ""

CategoryFilter == IF normKind = "users" THEN planFilter ELSE statusFilter

\* the record belongs to the selected category
InCategory(kind, record, category) ==
    CASE category = "all" -> TRUE
      [] kind = "users" /\ category = "active" ->
            Has(record, "planName") /\ "planExpiresAt" \in DOMAIN record
      [] kind = "users" /\ category = "none" -> ~Has(record, "planName")
      [] OTHER -> CategoryOf(kind, record) = category

OnlyCategory == normDone /\ searchTerm = "" /\ dateFilter = "all"

\* C15: with only the categorical filter active, the derived list holds
\* exactly the records whose lower-cased plan or status equals the selected
\* category, 'active' the users with a plan name and an expiry, 'none' the
\* users without a plan name, 'all' every record.
C15_ExactCategory ==
    OnlyCategory =>
        normResult = SelectSeq(normItems, LAMBDA r :
                         InCategory(normKind, r, CategoryFilter))

Dated(l) == SelectSeq(l, LAMBDA r : "createdAt" \in DOMAIN r)

\* the records created at instant t belong to the selected bucket, M being
\* the local midnight of the current day
CreatedInBucket(t, bucket) ==
    LET M == Clock - (Clock % SecondsPerDay)
    IN  CASE bucket = "today" -> t >= M
          [] bucket = "yesterday" -> M - SecondsPerDay <= t /\ t < M
          [] bucket = "last7" -> t >= M - 7 * SecondsPerDay
          [] bucket = "last30" -> t >= M - 30 * SecondsPerDay
          [] bucket = "all" -> TRUE

OnlyDate ==
    normDone /\ searchTerm = "" /\ planFilter = "all" /\ statusFilter = "all"

\* C16: with only the date filter active, the records of the derived list
\* that carry a creation instant are exactly those of the collection
\* created in the selected bucket: at or after midnight M for 'today', in
\* [M - 1 day, M) for 'yesterday', at or after M - 7 days for 'last7', at or
\* after M - 30 days for 'last30', all of them for 'all'.
C16_DateBuckets ==
    OnlyDate =>
        Dated(normResult) = SelectSeq(Dated(normItems), LAMBDA r :
                                CreatedInBucket(r.createdAt, dateFilter))

\* a record created one second before midnight and one created at the start
\* of yesterday are both kept by 'yesterday'
C16_Witness ==
    /\ OnlyDate /\ dateFilter = "yesterday"
    /\ Len(Dated(normItems)) = 2 /\ Len(normResult) = 2
    /\ normItems[1].createdAt = Midnight(Clock) - 1
    /\ normItems[2].createdAt = DaysBefore(Midnight(Clock), 1)

\* C18: applying a view's pipeline to its own result under the same search
\* term, categorical filter and date filter returns that result.
C18_Idempotent ==
    normDone =>
        Derive(normKind, normResult, searchTerm, planFilter, statusFilter,
               dateFilter) = normResult

\* two filters were active and kept both payments of the collection
C18_Witness ==
    /\ normDone /\ view = "payments"
    /\ searchTerm = "n/a" /\ dateFilter = "last30"
    /\ Len(normItems) = 2 /\ Len(normResult) = 2

\* the records of the mounted view
Records ==
    CASE view = "users" -> users
      [] view = "assistants" -> assistants
      [] view = "payments" -> payments
      [] OTHER -> admins

\* C17: the statistics change only in a step that changes the unfiltered
\* records, so no change of the search term, of a filter or of the page
\* changes them, and every count is taken over all the records: the total
\* is the number of records and the counts by status add up to it.
C17_StatsOfAllRecords ==
    /\ [][Records' = Records => stats' = stats]_vars
    /\ [](stats.total = Len(Records))
    /\ [](view = "payments" =>
              stats.pending + stats.processing + stats.completed
                  + stats.failed + stats.canceled = Len(payments))

\* two users were fetched and the search shows one of them
C17_Witness ==
    /\ view = "users" /\ ~effectPending /\ searchTerm # ""
    /\ Len(users) = 2 /\ Len(filteredUsers) = 1
    /\ stats.total = 2 /\ stats.withPlan = 1

\* C19: in each of the four views a fetch that succeeds leaves as the
\* record collection the normalised response sequence in reversed order.
C19_FetchReverses ==
    [][\A shape \in BackendShapes :
          /\ \A items \in AdminLists :
                 fetchAdminsResolved(shape, items) =>
                     admins' = Reverse(Normalize("admins",
                                                 Envelope(shape, "admins", items)))
          /\ \A items \in UserLists :
                 fetchUsersResolved(shape, items) =>
                     users' = Reverse(Normalize("users",
                                                Envelope(shape, "users", items)))
          /\ \A items \in AssistantLists :
                 fetchAssistantsResolved(shape, items) =>
                     assistants' = Reverse(Normalize("assistants",
                                                     Envelope(shape, "assistants", items)))
          /\ \A items \in PaymentLists :
                 fetchPaymentsResolved(shape, items) =>
                     payments' = Reverse(Normalize("payments",
                                                   Envelope(shape, "payments", items)))]_vars

\* a text an accessor may return: neither empty nor the text of undefined
DefinedText(t) == t \notin {"", "undefined", "null"}

\* C20: for a record lacking any subset of its optional properties every
\* accessor with a fallback returns a non-empty text or a number: an absent
\* payment status gives pending, an absent assistant status offline, an
\* absent plan "No Plan", an absent amount and plan price 0.
C20_AccessorsDefined ==
    normDone =>
        LET x == normItems[1]
            shown == normResult[1]
        IN  /\ \A f \in DOMAIN shown.texts : DefinedText(shown.texts[f])
            /\ \A f \in DOMAIN shown.numbers : shown.numbers[f] \in Nat
            /\ (normKind = "payments" /\ "status" \notin DOMAIN x)
                   => shown.texts.status = "pending"
            /\ (normKind = "assistants" /\ "status" \notin DOMAIN x)
                   => shown.texts.status = "offline"
            /\ (normKind = "users" /\ "planName" \notin DOMAIN x)
                   => shown.texts.planName = "No Plan"
            /\ (normKind = "payments" /\ "amount" \notin DOMAIN x
                    /\ "planPrice" \notin DOMAIN x)
                   => shown.numbers.amount = 0

\* the accessors were evaluated on a payment that has only its identifier
C20_Witness ==
    /\ normDone /\ normKind = "payments"
    /\ DOMAIN normItems[1] = {"_id"}
    /\ normResult[1].texts.status = "pending"
    /\ normResult[1].texts.currency = "GBP"
    /\ normResult[1].numbers.amount = 0

\* C21: in the four views a render whose collection holds a record with an
\* identifier and any subset of its other properties does not end in an
\* error: the list shown is the pipeline's result on the fallback values.
C21_NeverFails ==
    normDone =>
        /\ normResult # TypeError
        /\ stats.total = Len(normItems)

\* no fetch, delete or verify call is waiting for its answer
Quiet ==
    /\ fetchRequests = 0
    /\ deleteRequests = EmptyBag
    /\ verifyRequests = EmptyBag

\* once no request is in flight the loading flag is false and no delete or
\* verify identifier is held, so the view can be refreshed again
QuietIsClear ==
    Quiet =>
        /\ ~loading
        /\ deletingId = NoId /\ verifyingId = NoId
        /\ (Mounted /\ ~effectPending) => CanRefresh(view)

\* C22 as stated: every fetch, delete and verify returns the view in the end
\* to a state in which it can be used again: the loading flag and the delete
\* and verify identifiers, once set, are reset, and once no request is in
\* flight they are clear.
C22_QuietIsReenterable ==
    /\ []QuietIsClear
    /\ loading ~> ~loading
    /\ (deletingId # NoId) ~> (deletingId = NoId)
    /\ (verifyingId # NoId) ~> (verifyingId = NoId)

\* the records of l at the positions first..last that exist
Positions(l, first, last) ==
    [k \in 1..Max(0, Min(last, Len(l)) - first + 1) |-> l[first + k - 1]]

RECURSIVE PagesUpTo(_)
PagesUpTo(q) == IF q = 0 THEN << >> ELSE PagesUpTo(q - 1) \o DesktopView(q)

\* C23: with ten records per page the table shows the records of the
\* derived list at positions (p-1)*10+1 .. p*10, the card list shows the
\* first p*10 records, and the table's pages 1..ceil(n/10) put one after
\* the other are the derived list.
C23_PageSlices ==
    (view \in Paginated) =>
        /\ DesktopView(currentPage)
               = Positions(Filtered, (currentPage - 1) * 10 + 1, currentPage * 10)
        /\ MobileView(currentPage) = Positions(Filtered, 1, currentPage * 10)
        /\ PagesUpTo(totalPages) = Filtered

\* the second page of eleven users holds the eleventh
C23_Witness ==
    /\ view = "users" /\ ~effectPending /\ ~loading
    /\ Len(filteredUsers) = 11 /\ currentPage = 2
    /\ DesktopView(currentPage) = << filteredUsers[11] >>
    /\ Len(MobileView(currentPage)) = 11

\* C24: when the POST of a delete is answered without an HTTP error and the
\* body says success = false, the admin stays in the collection and no
\* success is reported.
C24_SuccessFlagDecides ==
    [][\A req \in BagToSet(deleteRequests) :
          handleDeleteAdminResponded(req, "successFalse") =>
              /\ admins' = admins
              /\ toasts' # << "Admin deleted successfully" >>]_vars

\* C25: when a delete of admin X ends successfully, the new collection is
\* the collection of that moment without X, so an admin removed by an
\* earlier delete or absent from a later fetch is not put back.
C25_DeleteFromCurrent ==
    [][\A req \in BagToSet(deleteRequests) :
          DeleteSuccessStep(req) => admins' = WithoutId(admins, req.id)]_vars

\* C26: in the users and the assistants view, whenever the list is shown
\* and no filter effect is pending, the current page is at least 1 and at
\* most the number of pages of the derived list (1 when it is empty).
C26_PageInRange ==
    (view \in Paginated /\ Mounted /\ ~loading /\ ~effectPending) =>
        /\ 1 <= currentPage
        /\ currentPage <= Max(1, totalPages)

\* the last page of eleven records is shown
C26_Witness ==
    /\ view \in Paginated /\ Mounted /\ ~loading /\ ~effectPending
    /\ Len(Filtered) = 11 /\ currentPage = 2 /\ totalPages = 2

\* C27: in the users and the assistants view the statistic 'New Today' is
\* the number of records the date filter 'today' keeps when nothing is
\* searched for and the categorical filter is 'all'.
C27_NewTodayIsToday ==
    (/\ normDone /\ view \in Paginated
     /\ searchTerm = "" /\ planFilter = "all" /\ statusFilter = "all"
     /\ dateFilter = "today")
        => stats.newToday = Len(normResult)

\* C28: in every view, whenever a fetch of the collection is in flight the
\* loading flag is true.
C28_LoadingWhileFetching == fetchRequests > 0 => loading

\* C29: in the payments view, whenever the detail view is shown (a payment
\* is selected and loading is false) the selected payment is in the current
\* collection with the status it has there.
C29_SelectedIsCurrent ==
    (view = "payments" /\ selectedPayment # NoRecord /\ ~loading) =>
        \E k \in DOMAIN payments :
            /\ payments[k]._id = selectedPayment._id
            /\ getSafeStatus(payments[k]) = getSafeStatus(selectedPayment)

\* the record carries none of the properties its view searches, the
\* identifier apart
NothingToSearch(kind, record) ==
    (SearchFields(kind) \ {"_id"}) \cap DOMAIN record = {}

\* C30: a record that carries none of the searched properties is kept by
\* no search term that is not empty.
C30_NoMatchOnFallback ==
    (OnlySearch /\ searchTerm # "" /\ NothingToSearch(normKind, normItems[1]))
        => \A k \in DOMAIN normResult : normResult[k] # normItems[1]

====
